---- MODULE Spec2Model ----
(***************************************************************************)
(* A model of agentmemory: the episodic tier (EpisodicMemory, one SQLite   *)
(* table shared by all agent ids), the semantic tier (SemanticMemory, one   *)
(* collection per agent id), the working window (WorkingMemory) and the     *)
(* orchestrator (MemoryStore).                                              *)
(***************************************************************************)
EXTENDS Integers, Sequences, FiniteSets, TLC

\* ---------------------------------------------------------------- bounds
MaxEntries == 2
MaxId == 4
MaxMemId == 3
MaxWinId == 3
MaxTokens == 5
MaxMsgs == 3
MaxFacts == 1
MaxWm == 4
MaxRecallId == 2
MaxContextId == 3
MaxExisting == 2
MaxExportId == 2
MaxImportId == 4
MaxImport == 2
MaxCalls == 4
MaxCrashId == 3
MaxRecentId == 3
MaxPassMsgs == 2
MaxPassId == 3
MaxTokMsgs == 2
MaxContentLen == 9
MaxCandidates == 3
MaxOrderId == 2
MaxSnapshotId == 3
MaxConcId == 3
MaxDrainMsgs == 3

\* ---------------------------------------------------- program constants
ThresholdNum == 8
ThresholdDen == 10
SummaryImportance == 7
FactImportance == 8
DefaultN == 5
DefaultMaxTokens == 500
DedupThreshold == 92
DedupPoolN == 5
DedupPoolMinSim == 50
SearchMinSim == 30
HeaderLen == 16
ExportLimit == 10000
MaxWorkers == 1

\* ------------------------------------------------------ input alphabets
Agents == {"A", "B"}
Contents == {"X", "X2", "Y"}
EpContents == {"X"}
Importances == {1, 5, 9}
MemImportances == {5, 8}
RecallImportances == {4, 6}
RecallNs == {1, 2, DefaultN}
ContextQueries == {"", "X2"}
ContextBudgets == {0, 1, 3, 4, DefaultMaxTokens}
ContextNs == {1, DefaultN}
Header == "[Memory Context]"
DedupThresholds == {0, DedupThreshold, 101}
ImportRecords ==
    {[content |-> "Y", metadata |-> "{}", created_at |-> 0, importance |-> i] : i \in {1, 9}}
MergeArgs == {"omitted", "true", "false"}
Roles == {"user", "system"}
MsgLens == {4, 16}
WmRoles == {"user", "assistant", "system"}
SummaryText == "S"
FactContents == {"X", "Y"}
Configs == [dedup : BOOLEAN, autoCompress : BOOLEAN, extractFacts : BOOLEAN]
DefaultConfig == [dedup |-> TRUE, autoCompress |-> TRUE, extractFacts |-> TRUE]
NoMeta == "{}"
SummaryMeta == "compression_summary"

VARIABLES
    db,       \* rows of the SQLite table `memories`
    nextId,   \* the next AUTOINCREMENT id
    clock,    \* the last value time.time() returned
    hist,     \* history: every row inserted since the last clear of its agent id
    sem,      \* entries of the vector store: [coll, content], one collection per agent id
    win,      \* per agent id, the MemoryStore's WorkingMemory._messages
    cfg,      \* the MemoryStore constructor flags
    timer,    \* by how much time.time() can advance from one call to the next
    last,     \* history: the operation that produced this state
    disk,     \* the committed content of the SQLite file, what a new process finds
    executor, \* the ThreadPoolExecutor of an AsyncMemoryStore and the calls given to it
    client,   \* per agent id, whether SemanticMemory._client is set in this process
    writers   \* the connections writing to the SQLite file and their open transactions

vars == <<db, nextId, clock, hist, sem, win, cfg, timer, last, disk, executor, client,
          writers>>

\* ------------------------------------------------------------- helpers
Max2(a, b) == IF a >= b THEN a ELSE b
Min2(a, b) == IF a <= b THEN a ELSE b

RECURSIVE SeqSum(_)
SeqSum(s) == IF s = <<>> THEN 0 ELSE Head(s) + SeqSum(Tail(s))

Range(s) == {s[i] : i \in DOMAIN s}

\* All orderings of a finite set as sequences without repetition.
Perms(S) ==
    {p \in [1..Cardinality(S) -> S] : \A i, j \in 1..Cardinality(S) : i # j => p[i] # p[j]}

\* ============================================================ episodic tier
\* A faulty variant of Ns: the WHERE clause forgotten.
NsAnyAgent(tbl, a) == tbl

\* The rows of one agent id (WHERE agent_id = ?).
Ns(tbl, a) == {r \in tbl : r.agent = a}

\* EpisodicMemory.count
Count(tbl, a) == Cardinality(Ns(tbl, a))

\* A faulty variant of EvictLE: ORDER BY created_at ASC alone (importance forgotten).
EvictLEOldestFirst(r1, r2) == r1.created_at <= r2.created_at

\* A faulty variant of EvictLE: ORDER BY importance ASC, created_at DESC.
EvictLENewestFirst(r1, r2) ==
    \/ r1.importance < r2.importance
    \/ r1.importance = r2.importance /\ r1.created_at >= r2.created_at

\* ORDER BY importance ASC, created_at ASC: r1 may come no later than r2.
EvictLE(r1, r2) ==
    \/ r1.importance < r2.importance
    \/ r1.importance = r2.importance /\ r1.created_at <= r2.created_at

\* A faulty variant of EvictSets: LIMIT one short.
EvictSetsShort(tbl, a, k) ==
    {V \in SUBSET Ns(tbl, a) :
        /\ Cardinality(V) = k - 1
        /\ \A v \in V, r \in Ns(tbl, a) \ V :
              \/ v.importance < r.importance
              \/ v.importance = r.importance /\ v.created_at <= r.created_at}

\* A faulty variant of EvictSets: the subquery without WHERE agent_id = ?.
EvictSetsAnyAgent(tbl, a, k) ==
    {V \in SUBSET tbl :
        /\ Cardinality(V) = Min2(k, Cardinality(tbl))
        /\ \A v \in V, r \in tbl \ V :
              \/ v.importance < r.importance
              \/ v.importance = r.importance /\ v.created_at <= r.created_at}

\* The DELETE of EpisodicMemory.store: the possible sets of k victims. Rows that
\* tie on (importance, created_at) come out of the ORDER BY in an order SQLite
\* leaves open, so every choice among them is possible.
EvictSets(tbl, a, k) ==
    {V \in SUBSET Ns(tbl, a) :
        /\ Cardinality(V) = Min2(k, Count(tbl, a))
        /\ \A v \in V, r \in Ns(tbl, a) \ V : EvictLE(v, r)}

\* The state the episodic tier works on, as one value.
Ep == [db |-> db, nextId |-> nextId, clock |-> clock, hist |-> hist, ticks |-> timer]

\* EpisodicMemory.store as a relation: the states it can leave behind. time.time()
\* returns the previous reading advanced by one of e.ticks (0: the same reading
\* again, on a coarse clock).
EpStore(e, a, content, meta, importance) ==
    UNION {
        LET row == [id |-> e.nextId, agent |-> a, content |-> content, meta |-> meta,
                    created_at |-> t, importance |-> importance]
            ins == e.db \cup {row}
            count == Count(ins, a)
            kept == IF count > MaxEntries
                    THEN {ins \ V : V \in EvictSets(ins, a, count - MaxEntries)}
                    ELSE {ins}
        IN  {[e EXCEPT !.db = d, !.nextId = e.nextId + 1, !.clock = t,
                       !.hist = e.hist \cup {row}] : d \in kept}
        : t \in {e.clock + d : d \in e.ticks}}

\* EpisodicMemory.clear
EpClear(tbl, a) == {r \in tbl : r.agent # a}

\* A faulty variant of RecallRecent: ORDER BY created_at ASC.
RecallRecentOldestFirst(tbl, a, n) ==
    {SubSeq(p, 1, Min2(n, Len(p))) : p \in
        {q \in Perms(Ns(tbl, a)) :
            \A i, j \in DOMAIN q : i < j => q[i].created_at <= q[j].created_at}}

\* ORDER BY created_at DESC LIMIT n: the possible result lists (ties in created_at
\* come out in an order SQLite leaves open).
RecallRecent(tbl, a, n) ==
    {SubSeq(p, 1, Min2(n, Len(p))) : p \in
        {q \in Perms(Ns(tbl, a)) :
            \A i, j \in DOMAIN q : i < j => q[i].created_at >= q[j].created_at}}

\* ORDER BY importance DESC, created_at DESC over the rows whose content matches
\* LIKE %query%; Matches is the containment relation on the modelled contents.
Matches(content, query) ==
    \/ content = query
    \/ query = "X" /\ content = "X2"

Search(tbl, a, query, n) ==
    {SubSeq(p, 1, Min2(n, Len(p))) : p \in
        {q \in Perms({r \in Ns(tbl, a) : Matches(r.content, query)}) :
            \A i, j \in DOMAIN q : i < j => EvictLE(q[j], q[i])}}

\* ============================================================ semantic tier
\* The opaque embedding: cosine similarity of two contents, in hundredths.
Sim(c1, c2) ==
    IF c1 = c2 THEN 100
    ELSE IF {c1, c2} = {"X", "X2"} THEN 95
    ELSE IF {c1, c2} = {"X2", "Y"} THEN 60
    ELSE 40

\* The entries of a collection with their similarity to the query, nearest first.
RECURSIVE NearestFirst(_, _)
NearestFirst(S, q) ==
    IF S = {} THEN <<>>
    ELSE LET best == CHOOSE c \in S : \A d \in S : Sim(q, c) >= Sim(q, d)
         IN  <<[content |-> best, similarity |-> Sim(q, best)]>>
                \o NearestFirst(S \ {best}, q)

RECURSIVE AtLeast(_, _)
AtLeast(s, minSim) ==
    IF s = <<>> THEN <<>>
    ELSE IF Head(s).similarity >= minSim
         THEN <<Head(s)>> \o AtLeast(Tail(s), minSim)
         ELSE AtLeast(Tail(s), minSim)

\* SemanticMemory.search on a working backend: the n nearest entries of the
\* agent's collection, then those with similarity >= min_similarity.
SemSearch(coll, q, n, minSim) ==
    AtLeast(SubSeq(NearestFirst(coll, q), 1,
                   Min2(Min2(n, Max2(1, Cardinality(coll))), Cardinality(coll))),
            minSim)

\* _get_collection: the contents of the collection agentmemory_<agent id>.
Coll(store, a) == {e.content : e \in {x \in store : x.coll = a}}

\* SemanticMemory.store on a working backend: upsert under the content's hash.
SemStore(store, a, content) == store \cup {[coll |-> a, content |-> content]}

\* The vector backends a SemanticMemory can be constructed with.
Backends == {"chromadb", "qdrant"}

\* SemanticMemory.__init__: _client and _collection are None until the first
\* _get_collection of the process.
NoClient(b) ==
    [backend |-> b, client |-> [a \in Agents |-> FALSE],
     collection |-> [a \in Agents |-> FALSE]]

\* _get_collection: creates the client and gets or creates the collection.
GetCollection(cl, a) ==
    [cl EXCEPT !.client[a] = TRUE, !.collection[a] = TRUE]

\* SemanticMemory.count: 0 while _collection is None, collection.count() on
\* chromadb, 0 on any other backend.
SemCount(store, cl, a) ==
    IF ~cl.collection[a] THEN 0
    ELSE IF cl.backend = "chromadb" THEN Cardinality(Coll(store, a))
    ELSE 0

\* SemanticMemory.clear: delete_collection when the backend is chromadb and
\* this object has created its client; nothing otherwise.
SemClear(store, cl, a) ==
    IF cl.backend = "chromadb" /\ cl.client[a]
    THEN [sem |-> {x \in store : x.coll # a},
          client |-> [cl EXCEPT !.collection[a] = FALSE]]
    ELSE [sem |-> store, client |-> cl]

\* ============================================================ deduplicator
\* A faulty variant of IsDuplicateAt: without the exact-match test before the
\* embeddings.
IsDuplicateAtBySimilarityOnly(candidate, existing, embeds, threshold) ==
    IF existing = <<>> THEN FALSE
    ELSE \E k \in DOMAIN existing :
            /\ k + 1 <= embeds
            /\ Sim(candidate, existing[k]) >= threshold

\* A faulty variant of IsDuplicateAt: the except branch returns True.
IsDuplicateAtFailingAsDuplicate(candidate, existing, embeds, threshold) ==
    IF existing = <<>> THEN FALSE
    ELSE IF candidate \in Range(existing) THEN TRUE
    ELSE \/ embeds <= Len(existing)
         \/ \E k \in DOMAIN existing : Sim(candidate, existing[k]) >= threshold

\* MemoryDeduplicator.is_duplicate under self.threshold = threshold (in
\* hundredths). embeds is the number of embed calls that succeed before one
\* raises (the candidate's is the first call, existing[k]'s the k+1st).
IsDuplicateAt(candidate, existing, embeds, threshold) ==
    IF existing = <<>> THEN FALSE
    ELSE IF candidate \in Range(existing) THEN TRUE
    ELSE \E k \in DOMAIN existing :
            /\ k + 1 <= embeds
            /\ Sim(candidate, existing[k]) >= threshold

\* Whether the call reached an embed call that raised (the except branch ran).
EmbedFailed(candidate, existing, embeds, threshold) ==
    /\ existing # <<>>
    /\ candidate \notin Range(existing)
    /\ embeds <= Len(existing)
    /\ \A k \in DOMAIN existing :
          k + 1 <= embeds => Sim(candidate, existing[k]) < threshold

\* MemoryDeduplicator.is_duplicate as the MemoryStore builds it
\* (threshold = dedup_threshold).
IsDuplicate(candidate, existing, embeds) ==
    IsDuplicateAt(candidate, existing, embeds, DedupThreshold)

\* The for loop of deduplicate: seen is the comparison pool, unique the
\* candidates accepted so far.
RECURSIVE DedupLoop(_, _, _, _, _)
DedupLoop(candidates, seen, unique, embeds, threshold) ==
    IF candidates = <<>> THEN unique
    ELSE IF IsDuplicateAt(Head(candidates), seen, embeds, threshold)
         THEN DedupLoop(Tail(candidates), seen, unique, embeds, threshold)
         ELSE DedupLoop(Tail(candidates), Append(seen, Head(candidates)),
                        Append(unique, Head(candidates)), embeds, threshold)

\* A faulty variant of Deduplicate: the accepted candidates do not join the
\* comparison pool.
DeduplicateAgainstExistingOnly(candidates, existing, embeds, threshold) ==
    [unique |-> SelectSeq(candidates,
                          LAMBDA c : ~IsDuplicateAt(c, existing, embeds, threshold)),
     existing |-> existing]

\* MemoryDeduplicator.deduplicate: the list it returns and the caller's
\* existing list after the call (the loop appends to a copy of it).
Deduplicate(candidates, existing, embeds, threshold) ==
    [unique |-> DedupLoop(candidates, existing, <<>>, embeds, threshold),
     existing |-> existing]

\* =========================================================== working window
\* A faulty variant of TokenEstimate: the quotient rounded up.
TokenEstimateCeil(len) == Max2(1, (len + 3) \div 4)

\* Message.__post_init__: the token estimate of a content of the given length.
TokenEstimate(len) == Max2(1, len \div 4)

NewMessage(role, len) == [role |-> role, len |-> len, token_estimate |-> TokenEstimate(len)]

\* WorkingMemory.token_count
TokenCount(w) == SeqSum([i \in DOMAIN w |-> w[i].token_estimate])

\* int(self.max_tokens * self.compression_threshold)
Threshold == (MaxTokens * ThresholdNum) \div ThresholdDen

\* A faulty variant of NeedsCompression: > in place of >=.
NeedsCompressionAbove(w) == TokenCount(w) > Threshold

\* WorkingMemory.needs_compression
NeedsCompression(w) == TokenCount(w) >= Threshold

\* [m for m in self._messages if m.role != "system"]
RECURSIVE NonSystem(_)
NonSystem(w) ==
    IF w = <<>> THEN <<>>
    ELSE IF Head(w).role # "system" THEN <<Head(w)>> \o NonSystem(Tail(w))
    ELSE NonSystem(Tail(w))

\* A faulty variant of GetMessagesForCompression: every non-system message is a target.
GetAllNonSystem(w) == NonSystem(w)

\* A faulty variant of GetMessagesForCompression: half = len(non_system) // 2,
\* without the max(1, ...).
GetOldestHalfOrNone(w) ==
    LET ns == NonSystem(w)
    IN  SubSeq(ns, 1, Len(ns) \div 2)

\* WorkingMemory.get_messages_for_compression
GetMessagesForCompression(w) ==
    LET ns == NonSystem(w)
        half == Max2(1, Len(ns) \div 2)
    IN  SubSeq(ns, 1, Min2(half, Len(ns)))

\* A faulty variant of PopOldestMessages: the n oldest messages whatever their role.
PopOldestAnyRole(w, n) == SubSeq(w, Min2(n, Len(w)) + 1, Len(w))

\* WorkingMemory.pop_oldest_messages: to_evict, the list it returns.
PopEvicted(w, n) == SubSeq(NonSystem(w), 1, Min2(n, Len(NonSystem(w))))

\* WorkingMemory.pop_oldest_messages: the window without its n oldest
\* non-system messages.
RECURSIVE PopOldestMessages(_, _)
PopOldestMessages(w, n) ==
    IF w = <<>> THEN <<>>
    ELSE IF Head(w).role # "system" /\ n > 0 THEN PopOldestMessages(Tail(w), n - 1)
    ELSE <<Head(w)>> \o PopOldestMessages(Tail(w), n)

\* ============================================================== MemoryStore
\* The state MemoryStore.remember works on, as one value.
Mem == [ep |-> Ep, sem |-> sem]

\* Whether remember judges the content a duplicate. env holds what the backends
\* do during the call: searchOk (semantic.search returns), storeOk
\* (semantic.store returns), embeds (see IsDuplicate).
JudgedDuplicate(m, a, content, semantic, dedupOn, env) ==
    /\ dedupOn
    /\ semantic
    /\ env.searchOk
    /\ LET pool == SemSearch(Coll(m.sem, a), content, DedupPoolN, DedupPoolMinSim)
       IN  IsDuplicate(content, [k \in DOMAIN pool |-> pool[k].content], env.embeds)

\* A faulty variant of Remember: the duplicate check gates the semantic write only.
RememberEpisodicUngated(m, a, content, importance, semantic, dedupOn, env) ==
    LET dup == JudgedDuplicate(m, a, content, semantic, dedupOn, env)
    IN  {[ep |-> e,
          sem |-> IF semantic /\ env.storeOk /\ ~dup
                  THEN SemStore(m.sem, a, content) ELSE m.sem,
          dup |-> dup, result |-> "returned"]
            : e \in EpStore(m.ep, a, content, NoMeta, importance)}

\* A faulty variant of Remember: the episodic write is undone when semantic.store raises.
RememberRollsBack(m, a, content, importance, semantic, dedupOn, env) ==
    IF JudgedDuplicate(m, a, content, semantic, dedupOn, env)
    THEN {[ep |-> m.ep, sem |-> m.sem, dup |-> TRUE, result |-> "returned"]}
    ELSE {[ep |-> IF semantic /\ ~env.storeOk THEN [e EXCEPT !.db = m.ep.db] ELSE e,
           sem |-> IF semantic /\ env.storeOk
                   THEN SemStore(m.sem, a, content) ELSE m.sem,
           dup |-> FALSE, result |-> "returned"]
             : e \in EpStore(m.ep, a, content, NoMeta, importance)}

\* MemoryStore.remember as a relation: the states it can leave behind, with
\* whether it returned early on a duplicate. Every exception of the semantic
\* tier is caught, so the call always returns.
Remember(m, a, content, importance, semantic, dedupOn, env) ==
    IF JudgedDuplicate(m, a, content, semantic, dedupOn, env)
    THEN {[ep |-> m.ep, sem |-> m.sem, dup |-> TRUE, result |-> "returned"]}
    ELSE {[ep |-> e,
           sem |-> IF semantic /\ env.storeOk
                   THEN SemStore(m.sem, a, content) ELSE m.sem,
           dup |-> FALSE, result |-> "returned"]
             : e \in EpStore(m.ep, a, content, NoMeta, importance)}

\* for fact in facts: self.remember(fact, importance=8)
RECURSIVE RememberAll(_, _, _, _, _)
RememberAll(m, a, facts, dedupOn, env) ==
    IF facts = <<>> THEN {m}
    ELSE UNION {RememberAll([ep |-> r.ep, sem |-> r.sem], a, Tail(facts), dedupOn, env)
                  : r \in Remember(m, a, Head(facts), FactImportance, TRUE, dedupOn, env)}

\* The calls a pass makes after summarize, in the order it makes them: the
\* store of the summary (when there is one), extract_facts and one remember
\* per fact (when facts are extracted).
StoreStep(summary) == IF summary # "" THEN <<"store_summary">> ELSE <<>>
RememberSteps(facts) == [i \in DOMAIN facts |-> "remember"]

\* What a pass did, beside the state it leaves: the calls it made (steps), the
\* messages it passed to the generation calls (targets), what summarize and
\* extract_facts returned, and the messages pop_oldest_messages returned.
Trace(steps, targets, summary, facts, evicted) ==
    [steps |-> steps, targets |-> targets, summary |-> summary, facts |-> facts,
     evicted |-> evicted]
NoTrace == Trace(<<>>, <<>>, "", <<>>, <<>>)

\* _compress_working_memory from the call of summarize on.
CompressFrom(m, w, a, config, gen, env, targets) ==
    LET popped == PopOldestMessages(w, Len(targets))
        evicted == PopEvicted(w, Len(targets))
        summarised == IF gen.summary # ""
                      THEN EpStore(m.ep, a, gen.summary, SummaryMeta, SummaryImportance)
                      ELSE {m.ep}
        stored == <<"summarize">> \o StoreStep(gen.summary)
    IN  IF gen.summaryRaises
        THEN {[ep |-> m.ep, sem |-> m.sem, win |-> w, pass |-> "failed",
               result |-> "raised",
               trace |-> Trace(<<"summarize">>, targets, "", <<>>, <<>>)]}
        ELSE IF ~config.extractFacts
        THEN {[ep |-> e, sem |-> m.sem, win |-> popped, pass |-> "completed",
               result |-> "returned",
               trace |-> Trace(stored \o <<"evict">>, targets, gen.summary, <<>>,
                               evicted)] : e \in summarised}
        ELSE IF gen.factsRaise
        THEN {[ep |-> e, sem |-> m.sem, win |-> w, pass |-> "failed",
               result |-> "raised",
               trace |-> Trace(stored \o <<"extract_facts">>, targets, gen.summary,
                               <<>>, <<>>)] : e \in summarised}
        ELSE {[ep |-> r.ep, sem |-> r.sem, win |-> popped, pass |-> "completed",
               result |-> "returned",
               trace |-> Trace(stored \o <<"extract_facts">> \o RememberSteps(gen.facts)
                                 \o <<"evict">>,
                               targets, gen.summary, gen.facts, evicted)]
                : r \in UNION {RememberAll([ep |-> e, sem |-> m.sem], a, gen.facts,
                                            config.dedup, env) : e \in summarised}}

\* A faulty variant of CompressWorkingMemory: the targets are evicted before the
\* generation calls, so a failed pass has evicted too.
CompressEvictsFirst(m, w, a, config, gen, env) ==
    LET targets == GetMessagesForCompression(w)
        popped == PopOldestMessages(w, Len(targets))
        evicted == PopEvicted(w, Len(targets))
    IN  IF targets = <<>>
        THEN {[ep |-> m.ep, sem |-> m.sem, win |-> w, pass |-> "noop",
               result |-> "returned", trace |-> NoTrace]}
        ELSE IF gen.summaryRaises \/ (config.extractFacts /\ gen.factsRaise)
        THEN {[ep |-> m.ep, sem |-> m.sem, win |-> popped, pass |-> "failed",
               result |-> "raised",
               trace |-> Trace(<<"evict", "summarize">>, targets, "", <<>>, evicted)]}
        ELSE {[ep |-> m.ep, sem |-> m.sem, win |-> popped, pass |-> "completed",
               result |-> "returned",
               trace |-> Trace(<<"evict", "summarize">>, targets, gen.summary, <<>>,
                               evicted)]}

\* A faulty variant of CompressWorkingMemory: the facts are remembered before
\* the summary is stored.
CompressFactsBeforeSummary(m, w, a, config, gen, env) ==
    LET targets == GetMessagesForCompression(w)
        popped == PopOldestMessages(w, Len(targets))
        evicted == PopEvicted(w, Len(targets))
        facts == IF config.extractFacts /\ ~gen.factsRaise THEN gen.facts ELSE <<>>
        steps == <<"summarize">>
                   \o (IF config.extractFacts THEN <<"extract_facts">> ELSE <<>>)
                   \o RememberSteps(facts) \o StoreStep(gen.summary)
    IN  IF targets = <<>>
        THEN {[ep |-> m.ep, sem |-> m.sem, win |-> w, pass |-> "noop",
               result |-> "returned", trace |-> NoTrace]}
        ELSE IF gen.summaryRaises \/ (config.extractFacts /\ gen.factsRaise)
        THEN {[ep |-> m.ep, sem |-> m.sem, win |-> w, pass |-> "failed",
               result |-> "raised",
               trace |-> Trace(<<"summarize">>, targets, "", <<>>, <<>>)]}
        ELSE UNION {
               {[ep |-> e, sem |-> r.sem, win |-> popped, pass |-> "completed",
                 result |-> "returned",
                 trace |-> Trace(steps \o <<"evict">>, targets, gen.summary, facts,
                                 evicted)]
                  : e \in IF gen.summary # ""
                          THEN EpStore(r.ep, a, gen.summary, SummaryMeta,
                                       SummaryImportance)
                          ELSE {r.ep}}
               : r \in RememberAll(m, a, facts, config.dedup, env)}

\* A faulty variant of CompressWorkingMemory: an empty summary ends the pass.
CompressStopsOnEmptySummary(m, w, a, config, gen, env) ==
    LET targets == GetMessagesForCompression(w)
    IN  IF targets # <<>> /\ ~gen.summaryRaises /\ gen.summary = ""
        THEN {[ep |-> m.ep, sem |-> m.sem, win |-> w, pass |-> "completed",
               result |-> "returned",
               trace |-> Trace(<<"summarize">>, targets, "", <<>>, <<>>)]}
        ELSE CompressFrom(m, w, a, config, gen, env, targets)

\* A faulty variant of CompressWorkingMemory: no return when there is nothing
\* to compress.
CompressWithoutEmptyCheck(m, w, a, config, gen, env) ==
    CompressFrom(m, w, a, config, gen, env, GetMessagesForCompression(w))

\* MemoryStore._compress_working_memory as a relation. gen holds what the
\* generation calls do: summaryRaises, summary (the text returned), factsRaise,
\* facts (the facts extracted); env what the semantic tier does while the facts
\* are remembered. Nothing catches an exception of a generation call.
CompressWorkingMemory(m, w, a, config, gen, env) ==
    LET targets == GetMessagesForCompression(w)
    IN  IF targets = <<>>
        THEN {[ep |-> m.ep, sem |-> m.sem, win |-> w, pass |-> "noop",
               result |-> "returned", trace |-> NoTrace]}
        ELSE CompressFrom(m, w, a, config, gen, env, targets)

\* A faulty variant of InsertByScore: an entry goes before the entries of equal
\* score (an unstable sort).
RECURSIVE InsertByScoreBeforeTies(_, _)
InsertByScoreBeforeTies(sorted, x) ==
    IF sorted = <<>> THEN <<x>>
    ELSE IF Head(sorted).score > x.score
         THEN <<Head(sorted)>> \o InsertByScoreBeforeTies(Tail(sorted), x)
         ELSE <<x>> \o sorted

\* sorted(results, key=score, reverse=True): a stable sort, highest score first.
RECURSIVE InsertByScore(_, _)
InsertByScore(sorted, x) ==
    IF sorted = <<>> THEN <<x>>
    ELSE IF Head(sorted).score >= x.score
         THEN <<Head(sorted)>> \o InsertByScore(Tail(sorted), x)
         ELSE <<x>> \o sorted

RECURSIVE SortByScore(_)
SortByScore(s) ==
    IF s = <<>> THEN <<>>
    ELSE InsertByScore(SortByScore(SubSeq(s, 1, Len(s) - 1)), s[Len(s)])

\* The seen/unique loop of recall: the first occurrence of each content.
RECURSIVE UniqueByContent(_, _)
UniqueByContent(s, seen) ==
    IF s = <<>> THEN <<>>
    ELSE IF Head(s).content \in seen
         THEN UniqueByContent(Tail(s), seen)
         ELSE <<Head(s)>> \o UniqueByContent(Tail(s), seen \cup {Head(s).content})

\* MemoryStore.recall: the possible result lists. searchOk: semantic.search returns.
Recall(tbl, store, a, q, n, includeEpisodic, searchOk) ==
    LET hits == IF searchOk THEN SemSearch(Coll(store, a), q, n, SearchMinSim) ELSE <<>>
        semPart == [k \in DOMAIN hits |->
                      [content |-> hits[k].content, source |-> "semantic",
                       score |-> hits[k].similarity]]
        recents == IF includeEpisodic THEN RecallRecent(tbl, a, Min2(n, 10)) ELSE {<<>>}
    IN  {LET epPart == [k \in DOMAIN rec |->
                          [content |-> rec[k].content, source |-> "episodic",
                           score |-> rec[k].importance * 10]]
             unique == UniqueByContent(SortByScore(semPart \o epPart), {})
         IN  SubSeq(unique, 1, Min2(n, Len(unique)))
         : rec \in recents}

\* A faulty variant of RecallCall: the exception of semantic.search is not caught.
RecallCallUnguarded(tbl, store, a, q, n, includeEpisodic, searchOk) ==
    IF searchOk
    THEN {[result |-> "returned", value |-> v]
            : v \in Recall(tbl, store, a, q, n, includeEpisodic, searchOk)}
    ELSE {[result |-> "raised", value |-> <<>>]}

\* One call of MemoryStore.recall: how it ends and what it returns. The
\* try/except around semantic.search turns every exception into no hits.
RecallCall(tbl, store, a, q, n, includeEpisodic, searchOk) ==
    {[result |-> "returned", value |-> v]
        : v \in Recall(tbl, store, a, q, n, includeEpisodic, searchOk)}

\* The length of the text a content stands for.
ContentLen(c) == CASE c = "X" -> 9 [] c = "X2" -> 14 [] c = "Y" -> 5 [] OTHER -> 9

\* A faulty variant of Bullets: continue in place of break, so a bullet that
\* does not fit is skipped and later ones are still tried.
RECURSIVE BulletsSkipping(_, _)
BulletsSkipping(memories, budget) ==
    IF memories = <<>> THEN <<>>
    ELSE LET estimated == (2 + ContentLen(Head(memories).content)) \div 4
         IN  IF budget - estimated < 0 THEN BulletsSkipping(Tail(memories), budget)
             ELSE <<Head(memories).content>>
                    \o BulletsSkipping(Tail(memories), budget - estimated)

\* A faulty variant of Bullets: the budget is tested before the bullet's
\* estimate is taken off, so one bullet too many gets in.
RECURSIVE BulletsOneOver(_, _)
BulletsOneOver(memories, budget) ==
    IF memories = <<>> \/ budget < 0 THEN <<>>
    ELSE <<Head(memories).content>>
           \o BulletsOneOver(Tail(memories),
                             budget - (2 + ContentLen(Head(memories).content)) \div 4)

\* The bullet loop of get_context: the contents whose bullets fit the budget.
RECURSIVE Bullets(_, _)
Bullets(memories, budget) ==
    IF memories = <<>> THEN <<>>
    ELSE LET estimated == (2 + ContentLen(Head(memories).content)) \div 4
         IN  IF budget - estimated < 0 THEN <<>>
             ELSE <<Head(memories).content>> \o Bullets(Tail(memories), budget - estimated)

\* MemoryStore.get_context: the possible results, each the contents of the
\* bullets under the header (<<>> stands for the empty string). q = "" stands
\* for no query.
GetContext(tbl, store, a, q, maxTokens, n, searchOk) ==
    LET memories == IF q # "" THEN Recall(tbl, store, a, q, n, TRUE, searchOk)
                    ELSE RecallRecent(tbl, a, n)
    IN  {Bullets(ms, maxTokens) : ms \in memories}

\* A faulty variant of ContextLines: without the len(lines) == 1 check.
ContextLinesHeaderAlone(memories, maxTokens) ==
    IF memories = <<>> THEN <<>>
    ELSE <<Header>> \o Bullets(memories, maxTokens)

\* The lines get_context joins with "\n" for a list of memories: the header,
\* then one line per bullet, each bullet line standing as its content; <<>> is
\* the empty string.
ContextLines(memories, maxTokens) ==
    IF memories = <<>> THEN <<>>
    ELSE LET lines == <<Header>> \o Bullets(memories, maxTokens)
         IN  IF Len(lines) = 1 THEN <<>> ELSE lines

\* len(line): "- " and the content, or the header.
LineLen(line) == IF line = Header THEN HeaderLen ELSE 2 + ContentLen(line)

\* len("\n".join(lines))
TextLen(lines) ==
    IF lines = <<>> THEN 0
    ELSE SeqSum([i \in DOMAIN lines |-> LineLen(lines[i])]) + Len(lines) - 1

\* One call of MemoryStore.get_context: the memories it retrieved (their
\* contents) and the lines of the text it returns. q = "" stands for no query.
GetContextCall(tbl, store, a, q, maxTokens, n, searchOk) ==
    LET memories == IF q # "" THEN Recall(tbl, store, a, q, n, TRUE, searchOk)
                    ELSE RecallRecent(tbl, a, n)
    IN  {[memories |-> [k \in DOMAIN ms |-> ms[k].content],
          value |-> ContextLines(ms, maxTokens)] : ms \in memories}

\* MemoryStore.export_json: the possible values of data["episodic"], the rows
\* recall_recent(n=10_000) returns, each as a dict of four keys.
ExportJson(tbl, a) ==
    {[k \in DOMAIN rows |->
        [content |-> rows[k].content, metadata |-> rows[k].meta,
         created_at |-> rows[k].created_at, importance |-> rows[k].importance]]
        : rows \in RecallRecent(tbl, a, ExportLimit)}

\* A faulty variant of ImportAll: the importance of the records is not passed on.
RECURSIVE ImportAllDefaultImportance(_, _, _)
ImportAllDefaultImportance(e, a, records) ==
    IF records = <<>> THEN {e}
    ELSE UNION {ImportAllDefaultImportance(x, a, Tail(records))
                  : x \in EpStore(e, a, Head(records).content, Head(records).metadata, 5)}

\* for r in records: self.episodic.store(content, metadata, importance)
RECURSIVE ImportAll(_, _, _)
ImportAll(e, a, records) ==
    IF records = <<>> THEN {e}
    ELSE UNION {ImportAll(x, a, Tail(records))
                  : x \in EpStore(e, a, Head(records).content, Head(records).metadata,
                                   Head(records).importance)}

\* The value of the merge parameter for a call: it defaults to False.
MergeOf(arg) == arg = "true"

\* A faulty variant of ImportJson: the namespace is never cleared.
ImportJsonNeverClears(e, a, records, merge) ==
    {[ep |-> x, returned |-> Len(records)] : x \in ImportAll(e, a, records)}

\* MemoryStore.import_json as a relation: the states it can leave behind and
\* the integer it returns.
ImportJson(e, a, records, merge) ==
    LET start == IF merge THEN e
                 ELSE [e EXCEPT !.db = EpClear(e.db, a),
                                !.hist = {r \in e.hist : r.agent # a}]
    IN  {[ep |-> x, returned |-> Len(records)] : x \in ImportAll(start, a, records)}

\* A record of a snapshot that lacks its content key.
NoContentRecord == [metadata |-> NoMeta, created_at |-> 0, importance |-> 5]

\* r["content"] raises KeyError on such a record.
Malformed(r) == "content" \notin DOMAIN r

\* The records the loop of import_json gets through: all of them, or those
\* before the first one whose r["content"] raises.
RECURSIVE BeforeMalformed(_)
BeforeMalformed(records) ==
    IF records = <<>> \/ Malformed(Head(records)) THEN <<>>
    ELSE <<Head(records)>> \o BeforeMalformed(Tail(records))

\* One call of MemoryStore.import_json on a dict that may hold malformed
\* records: how it ends and the states it can leave behind. Nothing in
\* import_json catches the KeyError or undoes what was done before it.
ImportJsonCall(e, a, records, merge) ==
    IF \E k \in DOMAIN records : Malformed(records[k])
    THEN {[ep |-> r.ep, result |-> "raised"]
            : r \in ImportJson(e, a, BeforeMalformed(records), merge)}
    ELSE {[ep |-> r.ep, result |-> "returned"]
            : r \in ImportJson(e, a, records, merge)}

\* ================================================================== state
NoOp == [op |-> "init", agent |-> "-"]

\* The EpisodicMemory instances that write to one database file.
Writers == {1, 2}

\* No connection holds the write lock and no transaction is open. view is the
\* table as a connection sees it inside its transaction, row the row it
\* inserted, count what its SELECT COUNT(*) returned, commits how many of its
\* stores have returned.
NoWriters ==
    [lock |-> 0,
     pc |-> [w \in Writers |-> "idle"],
     view |-> [w \in Writers |-> {}],
     row |-> [w \in Writers |-> {}],
     count |-> [w \in Writers |-> 0],
     commits |-> [w \in Writers |-> 0]]

\* A ThreadPoolExecutor nothing was submitted to.
IdlePool == [queue |-> <<>>, running |-> {}, submitted |-> <<>>, started |-> <<>>]

Init ==
    /\ db = {}
    /\ nextId = 1
    /\ clock = 0
    /\ hist = {}
    /\ sem = {}
    /\ win = [a \in Agents |-> <<>>]
    /\ cfg \in Configs
    /\ timer \in {{1}, {0, 1}}
    /\ last = NoOp
    /\ disk = {}
    /\ executor = IdlePool
    /\ client = NoClient("chromadb")
    /\ writers = NoWriters

InitEp == Init /\ cfg = DefaultConfig /\ timer = {0, 1}

\* A faulty variant of Commit: the connection is dropped without a commit.
CommitNothing(tbl, durable) == durable

\* Leaving `with self._connect() as conn` commits the transaction: the file
\* then holds the table as the connection saw it.
Commit(tbl, durable) == tbl

SetEp(e) ==
    /\ db' = e.db
    /\ disk' = Commit(e.db, disk)
    /\ nextId' = e.nextId
    /\ clock' = e.clock
    /\ hist' = e.hist

\* ------------------------------------------- EpisodicMemory used directly
Store(a) ==
    /\ nextId <= MaxId
    /\ \E c \in EpContents, i \in Importances :
         \E e \in EpStore(Ep, a, c, NoMeta, i) :
            /\ SetEp(e)
            /\ last' = [op |-> "store", agent |-> a, id |-> nextId]
    /\ UNCHANGED <<sem, win, cfg, timer, executor, client, writers>>

Clear(a) ==
    /\ db' = EpClear(db, a)
    /\ disk' = Commit(EpClear(db, a), disk)
    /\ hist' = {r \in hist : r.agent # a}
    /\ last' = [op |-> "clear", agent |-> a]
    /\ UNCHANGED <<nextId, clock, sem, win, cfg, timer, executor, client, writers>>

\* The values of n that recall_recent is called with.
RecentNs == {0, 1, MaxEntries, DefaultN}

DoRecallRecent(a) ==
    /\ \E n \in RecentNs :
         \E res \in RecallRecent(db, a, n) :
            last' = [op |-> "recall_recent", agent |-> a, n |-> n, value |-> res]
    /\ UNCHANGED <<db, nextId, clock, hist, sem, win, cfg, timer, disk, executor, client, writers>>

NextRecent ==
    \/ \E a \in Agents : nextId <= MaxRecentId /\ Store(a)
    \/ DoRecallRecent("A")

InitRecent == Init /\ cfg = DefaultConfig /\ timer = {0, 1}

SpecRecent == InitRecent /\ [][NextRecent]_vars

\* ------------------------------------------- SemanticMemory used directly
SemStoreCall(a) ==
    /\ \E c \in Contents :
         /\ sem' = SemStore(sem, a, c)
         /\ last' = [op |-> "sem_store", agent |-> a, content |-> c]
    /\ client' = GetCollection(client, a)
    /\ UNCHANGED <<db, nextId, clock, hist, win, cfg, timer, disk, executor, writers>>

SemSearchCall(a) ==
    /\ \E q \in Contents :
         last' = [op |-> "sem_search", agent |-> a, query |-> q,
                  value |-> SemSearch(Coll(sem, a), q, DefaultN, SearchMinSim)]
    /\ client' = GetCollection(client, a)
    /\ UNCHANGED <<db, nextId, clock, hist, sem, win, cfg, timer, disk, executor, writers>>

\* SemanticMemory.clear, also reached through MemoryStore.clear when
\* "semantic" is among the tiers.
SemClearCall(a) ==
    /\ sem' = SemClear(sem, client, a).sem
    /\ client' = SemClear(sem, client, a).client
    /\ last' = [op |-> "sem_clear", agent |-> a]
    /\ UNCHANGED <<db, nextId, clock, hist, win, cfg, timer, disk, executor, writers>>

SemCountCall(a) ==
    /\ last' = [op |-> "sem_count", agent |-> a, value |-> SemCount(sem, client, a)]
    /\ UNCHANGED <<db, nextId, clock, hist, sem, win, cfg, timer, disk, executor, client, writers>>

\* The process ends and a new one constructs its SemanticMemory objects on
\* the same persist_dir. A chromadb PersistentClient keeps its collections on
\* disk; the qdrant client of the default url ":memory:" keeps nothing.
SemRestart ==
    /\ client' = NoClient(client.backend)
    /\ sem' = IF client.backend = "chromadb" THEN sem ELSE {}
    /\ last' = [op |-> "restart", agent |-> "-"]
    /\ UNCHANGED <<db, nextId, clock, hist, win, cfg, timer, disk, executor, writers>>

NextSem ==
    \/ \E a \in Agents : SemStoreCall(a)
    \/ SemSearchCall("A")
    \/ SemClearCall("A")
    \/ SemCountCall("A")
    \/ SemRestart

InitSem ==
    /\ db = {} /\ nextId = 1 /\ clock = 0 /\ hist = {} /\ sem = {}
    /\ win = [a \in Agents |-> <<>>]
    /\ cfg = DefaultConfig /\ timer = {1}
    /\ last = NoOp
    /\ disk = {} /\ executor = IdlePool
    /\ client \in {NoClient(b) : b \in Backends}
    /\ writers = NoWriters

SpecSem == InitSem /\ [][NextSem]_vars

\* The process dies and a new EpisodicMemory is opened on the same path
\* (_init_db is CREATE TABLE IF NOT EXISTS): it sees what the file holds, the
\* committed transactions and nothing else.
Crash ==
    /\ db' = disk
    /\ last' = [op |-> "crash", agent |-> last.agent,
                storedId |-> IF last.op = "store" THEN last.id ELSE 0]
    /\ UNCHANGED <<nextId, clock, hist, sem, win, cfg, timer, disk, executor, client, writers>>

NextCrash ==
    \/ \E a \in Agents : nextId <= MaxCrashId /\ Store(a)
    \/ Clear("A")
    \/ Crash

InitCrash == Init /\ cfg = DefaultConfig /\ timer = {1}

SpecCrash == InitCrash /\ [][NextCrash]_vars

\* --------------------------------------------------- MemoryStore.remember
AllEmbeds == Cardinality(Contents) + 1
\* What the backends do during one call; when the search raises no embedding
\* is asked of the deduplicator.
Envs ==
    {e \in [searchOk : BOOLEAN, storeOk : BOOLEAN, embeds : {0, AllEmbeds}] :
        ~e.searchOk => e.embeds = AllEmbeds}
EnvOk == [searchOk |-> TRUE, storeOk |-> TRUE, embeds |-> AllEmbeds]

DoRemember(a, Is, Es) ==
    /\ nextId <= MaxMemId
    /\ \E c \in Contents, i \in Is, sm \in BOOLEAN, env \in Es :
         \E r \in Remember(Mem, a, c, i, sm, cfg.dedup, env) :
            /\ SetEp(r.ep)
            /\ sem' = r.sem
            /\ last' = [op |-> "remember", agent |-> a, content |-> c, importance |-> i,
                        dup |-> r.dup, result |-> r.result,
                        backendOk |-> sm /\ env = EnvOk,
                        storeRaised |-> sm /\ ~env.storeOk,
                        preEmpty |-> Ns(db, a) = {} /\ Coll(sem, a) = {}]
    /\ UNCHANGED <<win, cfg, timer, executor, client, writers>>

NextMem == DoRemember("A", MemImportances, Envs)

InitMem == Init /\ cfg.autoCompress /\ cfg.extractFacts /\ timer = {1}

SpecMem == InitMem /\ [][NextMem]_vars

\* Two MemoryStores, agent ids A and B, on one storage location.
NextShared == \E a \in Agents : DoRemember(a, {5}, {EnvOk})

InitShared == Init /\ cfg = DefaultConfig /\ timer = {1}

SpecShared == InitShared /\ [][NextShared]_vars

\* ------------------------------------------ MemoryStore.add_message, compress
FactSeqs == UNION {[1..k -> FactContents] : k \in 0..MaxFacts}

\* What the generation calls do during one pass; once summarize raises
\* nothing else is called.
Gens ==
    {g \in [summaryRaises : BOOLEAN, summary : {"", SummaryText},
             factsRaise : BOOLEAN, facts : FactSeqs] :
        /\ g.summaryRaises => (g.summary = "" /\ g.factsRaise)
        /\ g.factsRaise => g.facts = <<>>}

EnvDown == [searchOk |-> FALSE, storeOk |-> FALSE, embeds |-> AllEmbeds]

\* traced: whether the call is observed from inside (the trace of its pass is
\* kept in last) or by its effects alone.
AddMessageOf(a, traced) ==
    /\ \E role \in Roles, len \in MsgLens :
         LET msg == NewMessage(role, len)
             w == Append(win[a], msg)
             retry == last.op = "add_message" /\ last.pass = "failed"
         IN  IF cfg.autoCompress /\ NeedsCompression(w)
             THEN \E gen \in Gens, env \in {EnvOk, EnvDown} :
                    \E r \in CompressWorkingMemory(Mem, w, a, cfg, gen, env) :
                       /\ SetEp(r.ep)
                       /\ sem' = r.sem
                       /\ win' = [win EXCEPT ![a] = r.win]
                       /\ last' = [op |-> "add_message", agent |-> a, msg |-> msg,
                                   pass |-> r.pass, result |-> r.result,
                                   retry |-> retry,
                                   trace |-> IF traced THEN r.trace ELSE NoTrace]
             ELSE /\ win' = [win EXCEPT ![a] = w]
                  /\ last' = [op |-> "add_message", agent |-> a, msg |-> msg,
                              pass |-> "none", result |-> "returned", retry |-> retry,
                              trace |-> NoTrace]
                  /\ UNCHANGED <<db, nextId, clock, hist, sem, disk>>
    /\ UNCHANGED <<cfg, timer, executor, client, writers>>

AddMessage(a) ==
    /\ Len(win[a]) < MaxMsgs
    /\ nextId + MaxFacts <= MaxWinId
    /\ AddMessageOf(a, FALSE)

\* gens: what the generation calls of the pass may do; envs: what the semantic
\* tier may do meanwhile.
CompressWith(a, traced, gens, envs) ==
    /\ \E gen \in gens, env \in envs :
         \E r \in CompressWorkingMemory(Mem, win[a], a, cfg, gen, env) :
            /\ SetEp(r.ep)
            /\ sem' = r.sem
            /\ win' = [win EXCEPT ![a] = r.win]
            /\ last' = [op |-> "compress", agent |-> a, pass |-> r.pass,
                        result |-> r.result,
                        trace |-> IF traced THEN r.trace ELSE NoTrace]
    /\ UNCHANGED <<cfg, timer, executor, client, writers>>

CompressOf(a, traced) == CompressWith(a, traced, Gens, {EnvOk, EnvDown})

Compress(a) ==
    /\ nextId + MaxFacts <= MaxWinId
    /\ CompressOf(a, FALSE)

NextWin == AddMessage("A") \/ Compress("A")

InitWin == Init /\ cfg.dedup /\ timer = {1}

SpecWin == InitWin /\ [][NextWin]_vars

\* The passes observed from inside.
NextPass ==
    \/ /\ Len(win["A"]) < MaxPassMsgs
       /\ nextId + MaxFacts <= MaxPassId
       /\ AddMessageOf("A", TRUE)
    \/ /\ nextId + MaxFacts <= MaxPassId
       /\ CompressOf("A", TRUE)

InitPass == Init /\ cfg.dedup /\ cfg.autoCompress /\ timer = {1}

SpecPass == InitPass /\ [][NextPass]_vars

\* ------------------------------------------------------- MemoryStore.recall
DoRecall(a) ==
    /\ \E q \in Contents, n \in RecallNs, incl \in BOOLEAN, ok \in BOOLEAN :
         \E r \in RecallCall(db, sem, a, q, n, incl, ok) :
            last' = [op |-> "recall", agent |-> a, query |-> q, n |-> n,
                     includeEpisodic |-> incl, searchOk |-> ok,
                     result |-> r.result, value |-> r.value]
    /\ UNCHANGED <<db, nextId, clock, hist, sem, win, cfg, timer, disk, executor, client, writers>>

NextRecall ==
    \/ nextId <= MaxRecallId /\ DoRemember("A", RecallImportances, {EnvOk})
    \/ DoRecall("A")

InitRecall == Init /\ cfg = [DefaultConfig EXCEPT !.dedup = FALSE] /\ timer = {1}

SpecRecall == InitRecall /\ [][NextRecall]_vars

\* -------------------------------------------------- MemoryStore.get_context
DoGetContext(a) ==
    /\ \E q \in ContextQueries, k \in ContextBudgets, n \in ContextNs :
         \E r \in GetContextCall(db, sem, a, q, k, n, TRUE) :
            last' = [op |-> "get_context", agent |-> a, query |-> q, maxTokens |-> k,
                     n |-> n, memories |-> r.memories, value |-> r.value,
                     grew |-> /\ last.op = "get_context" /\ last.agent = a
                              /\ last.query = q /\ last.n = n
                              /\ last.maxTokens < k
                              /\ TextLen(last.value) < TextLen(r.value)]
    /\ UNCHANGED <<db, nextId, clock, hist, sem, win, cfg, timer, disk, executor, client, writers>>

NextContext ==
    \/ nextId <= MaxContextId /\ DoRemember("A", {5}, {EnvOk})
    \/ DoGetContext("A")

InitContext == Init /\ cfg = [DefaultConfig EXCEPT !.dedup = FALSE] /\ timer = {1}

SpecContext == InitContext /\ [][NextContext]_vars

\* --------------------------------------- MemoryDeduplicator used directly
\* The arguments of one is_duplicate call, the deduplicator's threshold and
\* what its embedder does.
DedupInputs ==
    {[op |-> "dedup_input", agent |-> "-", candidate |-> c, existing |-> ex,
      embeds |-> n, threshold |-> th]
        : c \in Contents,
          ex \in UNION {[1..k -> Contents] : k \in 0..MaxExisting},
          n \in 0..(MaxExisting + 1),
          th \in DedupThresholds}

InitDedup ==
    /\ db = {}
    /\ nextId = 1
    /\ clock = 0
    /\ hist = {}
    /\ sem = {}
    /\ win = [a \in Agents |-> <<>>]
    /\ cfg = DefaultConfig
    /\ timer = {1}
    /\ last \in DedupInputs
    /\ disk = {}
    /\ executor = IdlePool
    /\ client = NoClient("chromadb")
    /\ writers = NoWriters

DoIsDuplicate ==
    /\ last.op = "dedup_input"
    /\ last' = [op |-> "is_duplicate", agent |-> "-", candidate |-> last.candidate,
                existing |-> last.existing, embeds |-> last.embeds,
                threshold |-> last.threshold,
                result |-> "returned",
                failed |-> EmbedFailed(last.candidate, last.existing, last.embeds,
                                       last.threshold),
                value |-> IsDuplicateAt(last.candidate, last.existing, last.embeds,
                                        last.threshold)]
    /\ UNCHANGED <<db, nextId, clock, hist, sem, win, cfg, timer, disk, executor, client, writers>>

NextDedup == DoIsDuplicate

SpecDedup == InitDedup /\ [][NextDedup]_vars

\* The arguments of one deduplicate call, the deduplicator's threshold and
\* whether its embedder can be loaded.
DeduplicateInputs ==
    {[op |-> "deduplicate_input", agent |-> "-", candidates |-> cs, existing |-> ex,
      embedder |-> ok, threshold |-> th]
        : cs \in UNION {[1..k -> Contents] : k \in 0..MaxCandidates},
          ex \in UNION {[1..k -> Contents] : k \in 0..MaxExisting},
          ok \in BOOLEAN,
          th \in DedupThresholds}

InitDeduplicate ==
    /\ db = {} /\ nextId = 1 /\ clock = 0 /\ hist = {} /\ sem = {}
    /\ win = [a \in Agents |-> <<>>]
    /\ cfg = DefaultConfig /\ timer = {1}
    /\ last \in DeduplicateInputs
    /\ disk = {} /\ executor = IdlePool
    /\ client = NoClient("chromadb")
    /\ writers = NoWriters

DoDeduplicate ==
    /\ last.op = "deduplicate_input"
    /\ LET embeds == IF last.embedder
                     THEN Len(last.candidates) + Len(last.existing) + 1
                     ELSE 0
           r == Deduplicate(last.candidates, last.existing, embeds, last.threshold)
       IN  last' = [op |-> "deduplicate", agent |-> "-", candidates |-> last.candidates,
                    existing |-> last.existing, embedder |-> last.embedder,
                    threshold |-> last.threshold,
                    value |-> r.unique, existingAfter |-> r.existing]
    /\ UNCHANGED <<db, nextId, clock, hist, sem, win, cfg, timer, disk, executor, client, writers>>

NextDeduplicate == DoDeduplicate

SpecDeduplicate == InitDeduplicate /\ [][NextDeduplicate]_vars

\* ---------------------------------- MemoryStore.export_json, import_json
DoExportJson(a) ==
    /\ \E data \in ExportJson(db, a) :
         last' = [op |-> "export_json", agent |-> a, value |-> data]
    /\ UNCHANGED <<db, nextId, clock, hist, sem, win, cfg, timer, disk, executor, client, writers>>

\* The dicts handed to import_json: the last export, or a list written by hand.
ImportSources ==
    (IF last.op = "export_json" THEN {last.value} ELSE {})
        \cup UNION {[1..k -> ImportRecords] : k \in 0..MaxImport}

DoImportJson(a) ==
    /\ \E data \in ImportSources, arg \in MergeArgs :
         /\ nextId + Len(data) - 1 <= MaxImportId
         /\ \E r \in ImportJson(Ep, a, data, MergeOf(arg)) :
               /\ SetEp(r.ep)
               /\ last' = [op |-> "import_json", agent |-> a, data |-> data,
                           mergeArg |-> arg, merge |-> MergeOf(arg),
                           returned |-> r.returned,
                           roundTrip |-> /\ last.op = "export_json"
                                         /\ data = last.value
                                         /\ Ns(db, a) = {},
                           replaced |-> Ns(db, a) # {}]
    /\ UNCHANGED <<sem, win, cfg, timer, executor, client, writers>>

NextExport ==
    \/ \E a \in Agents : nextId <= MaxExportId /\ Store(a)
    \/ DoExportJson("A")
    \/ DoImportJson("B")

InitExport == Init /\ cfg = DefaultConfig /\ timer = {1}

SpecExport == InitExport /\ [][NextExport]_vars

\* ------------------------------------------------------- AsyncMemoryStore
\* The calls of coroutine methods, each made once.
Calls == 1..MaxCalls

\* AsyncMemoryStore._run up to its await: loop.run_in_executor hands the call
\* to the executor, which appends it to its work queue.
AsyncSubmit(c) ==
    /\ c \notin Range(executor.submitted)
    /\ executor' = [executor EXCEPT !.queue = Append(@, c),
                                    !.submitted = Append(@, c)]
    /\ last' = [op |-> "submit", agent |-> "-", call |-> c]
    /\ UNCHANGED <<db, nextId, clock, hist, sem, win, cfg, timer, disk, client, writers>>

\* A faulty variant of CanStart: a worker thread for every queued call.
CanStartUnbounded(p) == p.queue # <<>>

\* Whether a worker thread of the executor is free to take the next call: the
\* executor has max_workers threads.
CanStart(p) == p.queue # <<>> /\ Cardinality(p.running) < MaxWorkers

\* A worker thread takes the call at the head of the queue and begins to
\* execute it on the wrapped MemoryStore.
WorkerStart ==
    /\ CanStart(executor)
    /\ executor' = [executor EXCEPT !.queue = Tail(@),
                                    !.running = @ \cup {Head(executor.queue)},
                                    !.started = Append(@, Head(executor.queue))]
    /\ last' = [op |-> "start", agent |-> "-", call |-> Head(executor.queue)]
    /\ UNCHANGED <<db, nextId, clock, hist, sem, win, cfg, timer, disk, client, writers>>

\* The call returns on its worker thread; the awaiting coroutine is resumed.
WorkerFinish(c) ==
    /\ c \in executor.running
    /\ executor' = [executor EXCEPT !.running = @ \ {c}]
    /\ last' = [op |-> "finish", agent |-> "-", call |-> c]
    /\ UNCHANGED <<db, nextId, clock, hist, sem, win, cfg, timer, disk, client, writers>>

NextAsync ==
    \/ \E c \in Calls : AsyncSubmit(c)
    \/ WorkerStart
    \/ \E c \in Calls : WorkerFinish(c)

InitAsync == Init /\ cfg = DefaultConfig /\ timer = {1}

SpecAsync == InitAsync /\ [][NextAsync]_vars

\* episodic.store of a content of the caller's choice at the default
\* importance.
StoreContent(a) ==
    /\ \E c \in Contents :
         \E e \in EpStore(Ep, a, c, NoMeta, 5) :
            /\ SetEp(e)
            /\ last' = [op |-> "store", agent |-> a, id |-> nextId]
    /\ UNCHANGED <<sem, win, cfg, timer, executor, client, writers>>

\* A namespace is filled, exported, and the export imported into another.
NextOrder ==
    \/ nextId <= MaxOrderId /\ StoreContent("A")
    \/ DoExportJson("A")
    \/ DoImportJson("B")

InitOrder == Init /\ cfg = DefaultConfig /\ timer = {0, 1}

SpecOrder == InitOrder /\ [][NextOrder]_vars

\* The snapshots handed to import_json, well-formed and not.
Snapshots == UNION {[1..k -> ImportRecords \cup {NoContentRecord}] : k \in 0..MaxImport}

DoImportSnapshot(a) ==
    /\ \E data \in Snapshots, merge \in BOOLEAN :
         /\ nextId + Len(data) - 1 <= MaxImportId
         /\ \E r \in ImportJsonCall(Ep, a, data, merge) :
               /\ SetEp(r.ep)
               /\ last' = [op |-> "import_snapshot", agent |-> a, data |-> data,
                           merge |-> merge, result |-> r.result]
    /\ UNCHANGED <<sem, win, cfg, timer, executor, client, writers>>

NextSnapshot ==
    \/ \E a \in Agents : nextId <= MaxSnapshotId /\ Store(a)
    \/ DoImportSnapshot("A")

InitSnapshot == Init /\ cfg = DefaultConfig /\ timer = {1}

SpecSnapshot == InitSnapshot /\ [][NextSnapshot]_vars

\* ------------------------- EpisodicMemory.store from two instances at once
\* A faulty variant of CanWrite: the engine takes no lock.
CanWriteUnlocked(ws, w) == TRUE

\* Whether the connection of w can start writing: SQLite lets one connection
\* at a time hold the write lock of the file, from its first write to its
\* commit.
CanWrite(ws, w) == ws.lock \in {0, w}

\* store of w up to its INSERT: the implicit BEGIN and the INSERT take the
\* write lock; the row is in the connection's view, not yet in the file.
TxInsert(w, a) ==
    /\ writers.pc[w] = "idle"
    /\ CanWrite(writers, w)
    /\ nextId <= MaxConcId
    /\ \E i \in Importances, d \in timer :
         LET row == [id |-> nextId, agent |-> a, content |-> "X", meta |-> NoMeta,
                     created_at |-> clock + d, importance |-> i]
         IN  /\ writers' = [writers EXCEPT !.lock = w, !.pc[w] = "inserted",
                                           !.view[w] = db \cup {row},
                                           !.row[w] = {row}]
             /\ hist' = hist \cup {row}
             /\ clock' = clock + d
    /\ nextId' = nextId + 1
    /\ last' = [op |-> "tx_insert", agent |-> a, writer |-> w]
    /\ UNCHANGED <<db, sem, win, cfg, timer, disk, executor, client>>

\* The INSERT of w finds the file locked by the other connection until the
\* busy timeout runs out: store raises OperationalError, nothing is written.
TxBusy(w, a) ==
    /\ writers.pc[w] = "idle"
    /\ ~CanWrite(writers, w)
    /\ last' = [op |-> "tx_busy", agent |-> a, writer |-> w]
    /\ UNCHANGED <<db, nextId, clock, hist, sem, win, cfg, timer, disk, executor, client,
                   writers>>

\* SELECT COUNT(*) ... WHERE agent_id = ?, inside the transaction.
TxCount(w, a) ==
    /\ writers.pc[w] = "inserted"
    /\ writers' = [writers EXCEPT !.pc[w] = "counted",
                                  !.count[w] = Count(writers.view[w], a)]
    /\ last' = [op |-> "tx_count", agent |-> a, writer |-> w]
    /\ UNCHANGED <<db, nextId, clock, hist, sem, win, cfg, timer, disk, executor, client>>

\* if count > self.max_entries: DELETE ... LIMIT count - max_entries
TxEvict(w, a) ==
    /\ writers.pc[w] = "counted"
    /\ \E V \in IF writers.count[w] > MaxEntries
                 THEN EvictSets(writers.view[w], a, writers.count[w] - MaxEntries)
                 ELSE {{}} :
         writers' = [writers EXCEPT !.pc[w] = "evicted", !.view[w] = @ \ V]
    /\ last' = [op |-> "tx_evict", agent |-> a, writer |-> w]
    /\ UNCHANGED <<db, nextId, clock, hist, sem, win, cfg, timer, disk, executor, client>>

\* Leaving the with block: the transaction commits, the file holds the view
\* of w and the lock is released; store returns.
TxCommit(w, a) ==
    /\ writers.pc[w] = "evicted"
    /\ db' = writers.view[w]
    /\ disk' = Commit(writers.view[w], disk)
    /\ writers' = [writers EXCEPT !.lock = 0, !.pc[w] = "idle", !.view[w] = {},
                                  !.commits[w] = Min2(@ + 1, MaxConcId)]
    /\ last' = [op |-> "tx_commit", agent |-> a, writer |-> w, row |-> writers.row[w],
                evicted |-> (db \cup writers.row[w]) \ writers.view[w]]
    /\ UNCHANGED <<nextId, clock, hist, sem, win, cfg, timer, executor, client>>

NextConc ==
    \E w \in Writers :
        \/ TxInsert(w, "A")
        \/ TxBusy(w, "A")
        \/ TxCount(w, "A")
        \/ TxEvict(w, "A")
        \/ TxCommit(w, "A")

InitConc == Init /\ cfg = DefaultConfig /\ timer = {0, 1}

SpecConc == InitConc /\ [][NextConc]_vars

\* ------------------------------------------ compress() called again and again
\* The generation calls that return.
GensOk == {g \in Gens : ~g.summaryRaises /\ ~g.factsRaise}

\* The window is filled through WorkingMemory.add_message before the first
\* compress() call.
DrainFill(a) ==
    /\ last.op \in {"init", "wm_add"}
    /\ Len(win[a]) < MaxDrainMsgs
    /\ \E role \in Roles, len \in MsgLens :
         win' = [win EXCEPT ![a] = Append(win[a], NewMessage(role, len))]
    /\ last' = [op |-> "wm_add", agent |-> a]
    /\ UNCHANGED <<db, nextId, clock, hist, sem, cfg, timer, disk, executor, client, writers>>

\* MemoryStore.compress() with generation calls that succeed and a semantic
\* tier that answers.
DrainCompress(a) == CompressWith(a, FALSE, GensOk, {EnvOk})

\* WorkingMemory.clear()
DrainClear(a) ==
    /\ win[a] # <<>>
    /\ win' = [win EXCEPT ![a] = <<>>]
    /\ last' = [op |-> "wm_clear", agent |-> a]
    /\ UNCHANGED <<db, nextId, clock, hist, sem, cfg, timer, disk, executor, client, writers>>

NextDrain == DrainFill("A") \/ DrainCompress("A") \/ DrainClear("A")

InitDrain == Init /\ cfg = DefaultConfig /\ timer = {1}

\* The caller goes on calling compress().
SpecDrain == InitDrain /\ [][NextDrain]_vars /\ WF_vars(DrainCompress("A"))

\* ------------------------------------------------ WorkingMemory used directly
WmAddMessage(a) ==
    /\ Len(win[a]) < MaxWm
    /\ \E role \in WmRoles, len \in MsgLens :
         win' = [win EXCEPT ![a] = Append(win[a], NewMessage(role, len))]
    /\ last' = [op |-> "wm_add", agent |-> a]
    /\ UNCHANGED <<db, nextId, clock, hist, sem, cfg, timer, disk, executor, client, writers>>

WmGetMessagesForCompression(a) ==
    /\ last' = [op |-> "targets", agent |-> a,
                value |-> GetMessagesForCompression(win[a])]
    /\ UNCHANGED <<db, nextId, clock, hist, sem, win, cfg, timer, disk, executor, client, writers>>

WmPopOldestMessages(a) ==
    /\ \E n \in 0..(MaxWm + 1) :
         /\ win' = [win EXCEPT ![a] = PopOldestMessages(win[a], n)]
         /\ last' = [op |-> "pop", agent |-> a, n |-> n, value |-> PopEvicted(win[a], n)]
    /\ UNCHANGED <<db, nextId, clock, hist, sem, cfg, timer, disk, executor, client, writers>>

WmNeedsCompression(a) ==
    /\ last' = [op |-> "needs", agent |-> a, value |-> NeedsCompression(win[a])]
    /\ UNCHANGED <<db, nextId, clock, hist, sem, win, cfg, timer, disk, executor, client, writers>>

WmClear(a) ==
    /\ win' = [win EXCEPT ![a] = <<>>]
    /\ last' = [op |-> "wm_clear", agent |-> a]
    /\ UNCHANGED <<db, nextId, clock, hist, sem, cfg, timer, disk, executor, client, writers>>

NextWm ==
    \/ WmAddMessage("A")
    \/ WmGetMessagesForCompression("A")
    \/ WmPopOldestMessages("A")
    \/ WmNeedsCompression("A")
    \/ WmClear("A")

InitWm == Init /\ cfg = DefaultConfig /\ timer = {1}

SpecWm == InitWm /\ [][NextWm]_vars

\* The lengths of the contents given to add_message.
ContentLens == 0..MaxContentLen

TokAddMessage(a) ==
    /\ Len(win[a]) < MaxTokMsgs
    /\ \E role \in WmRoles, len \in ContentLens :
         /\ win' = [win EXCEPT ![a] = Append(win[a], NewMessage(role, len))]
         /\ last' = [op |-> "tok_add", agent |-> a, len |-> len]
    /\ UNCHANGED <<db, nextId, clock, hist, sem, cfg, timer, disk, executor, client, writers>>

NextTok == TokAddMessage("A") \/ WmClear("A")

InitTok == Init /\ cfg = DefaultConfig /\ timer = {1}

SpecTok == InitTok /\ [][NextTok]_vars

NextEp == \E a \in Agents : Store(a) \/ Clear(a)

SpecEp == InitEp /\ [][NextEp]_vars

\* ================================================================ claims
\* C1: after every store (and clear) the number of rows of each agent id is at
\* most max_entries.
CountWithinMaxEntries == \A a \in Agents : Count(db, a) <= MaxEntries

\* C1 witness: a store has just evicted from a namespace that is now exactly full.
FullAfterEviction ==
    /\ last.op = "store"
    /\ Count(db, last.agent) = MaxEntries
    /\ Count(hist, last.agent) > MaxEntries

DistinctKeys(H) ==
    \A r1, r2 \in H :
        r1 # r2 => ~(r1.importance = r2.importance /\ r1.created_at = r2.created_at)

StrictlyBelow(h, s) ==
    \/ h.importance < s.importance
    \/ h.importance = s.importance /\ h.created_at < s.created_at

\* C2: when the rows stored into a namespace have pairwise distinct
\* (importance, created_at), the surviving rows are exactly the max_entries
\* greatest of all rows stored so far by (importance, then created_at).
SurvivorsAreTopMaxEntries ==
    \A a \in Agents :
        LET H == Ns(hist, a)
            S == Ns(db, a)
        IN  DistinctKeys(H) =>
              /\ S \subseteq H
              /\ Cardinality(S) = Min2(Cardinality(H), MaxEntries)
              /\ \A s \in S, h \in H \ S : StrictlyBelow(h, s)

\* C2 witness: two evictions have happened and an evicted row is newer than a
\* survivor of higher importance.
EvictedNewerLowImportance ==
    \E a \in Agents :
        LET H == Ns(hist, a)
            S == Ns(db, a)
        IN  /\ DistinctKeys(H)
            /\ Cardinality(H) >= MaxEntries + 2
            /\ \E s \in S, h \in H \ S :
                  h.created_at > s.created_at /\ h.importance < s.importance

\* C4: a store (with its eviction) or a clear under one agent id leaves the rows
\* of every other agent id unchanged.
OtherNamespacesUnchanged ==
    [][\A b \in Agents : b # last'.agent => Ns(db', b) = Ns(db, b)]_vars

\* C4 witness: a store under one agent id has evicted while another agent id
\* holds rows.
EvictionBesideOtherNamespace ==
    /\ last.op = "store"
    /\ Count(hist, last.agent) > Count(db, last.agent)
    /\ \E b \in Agents : b # last.agent /\ Count(db, b) > 0

\* C3: no read run under one agent id (recall_recent, search, count, recall,
\* get_context) returns or counts anything stored under another agent id.
NoCrossNamespaceReads ==
    \A a \in Agents :
        LET mine == {r \in db : r.agent = a}
            myContents == {r.content : r \in mine}
            mySemantic == {e.content : e \in {x \in sem : x.coll = a}}
        IN  /\ \A n \in 1..(MaxEntries + 1) :
                 \A res \in RecallRecent(db, a, n) : Range(res) \subseteq mine
            /\ \A q \in Contents :
                 \A res \in Search(db, a, q, MaxEntries + 1) : Range(res) \subseteq mine
            /\ Count(db, a) = Cardinality(mine)
            /\ \A q \in Contents, ok \in BOOLEAN :
                 \A res \in Recall(db, sem, a, q, DefaultN, TRUE, ok) :
                    \A k \in DOMAIN res :
                       IF res[k].source = "episodic"
                       THEN res[k].content \in myContents
                       ELSE res[k].content \in mySemantic
            /\ \A q \in Contents \cup {""} :
                 \A res \in GetContext(db, sem, a, q, DefaultMaxTokens, DefaultN, TRUE) :
                    Range(res) \subseteq myContents \cup mySemantic

\* C3 witness: B holds, in both tiers, a content A never stored, while A holds
\* rows of its own and a recall under A for that content returns something.
OtherAgentHoldsForeignContent ==
    \E c \in Contents :
        /\ \E r \in db : r.agent = "B" /\ r.content = c
        /\ [coll |-> "B", content |-> c] \in sem
        /\ \A r \in hist : r.agent = "A" => r.content # c
        /\ \E r \in db : r.agent = "A"
        /\ \E res \in Recall(db, sem, "A", c, DefaultN, TRUE, TRUE) : res # <<>>

\* C5: a remember that is judged a duplicate writes to neither tier.
DuplicateRememberWritesNothing ==
    [][(last'.op = "remember" /\ last'.dup) => (db' = db /\ sem' = sem)]_vars

\* C5 witness: a remember has just been skipped as a duplicate.
RememberSkippedAsDuplicate ==
    /\ last.op = "remember"
    /\ last.dup
    /\ Count(db, last.agent) > 0

\* The second of two successive remember calls of one content on a namespace
\* that was empty before the first, dedup enabled and the backend working.
SecondRememberOfSameContent ==
    /\ cfg.dedup
    /\ last.op = "remember" /\ last.preEmpty /\ last.backendOk
    /\ last'.op = "remember" /\ last'.backendOk
    /\ last'.agent = last.agent /\ last'.content = last.content

\* C6 as claimed: the two calls leave one semantic entry and two episodic rows.
TwoRemembersLeaveTwoEpisodicRows ==
    [][SecondRememberOfSameContent =>
         /\ Cardinality({e \in sem' : e.coll = last'.agent}) = 1
         /\ Cardinality({r \in db' : r.agent = last'.agent}) = 2]_vars

\* C6 as amended: the second call is skipped as a duplicate before either write,
\* so the two calls leave one semantic entry and one episodic row.
TwoRemembersLeaveOneEpisodicRow ==
    [][SecondRememberOfSameContent =>
         /\ last'.dup
         /\ Cardinality({e \in sem' : e.coll = last'.agent}) = 1
         /\ Cardinality({r \in db' : r.agent = last'.agent}) = 1]_vars

\* C6 witness: the state after the second call.
AfterSecondRemember ==
    /\ cfg.dedup
    /\ last.op = "remember" /\ last.dup /\ last.backendOk
    /\ {r.content : r \in {x \in hist : x.agent = last.agent}} = {last.content}
    /\ Cardinality({x \in hist : x.agent = last.agent}) = 1
    /\ {e.content : e \in {x \in sem : x.coll = last.agent}} = {last.content}

NonSystemIdx(w) == {i \in DOMAIN w : w[i].role # "system"}

\* The positions of its j oldest non-system messages.
OldestIdx(w, j) ==
    {i \in NonSystemIdx(w) : Cardinality({k \in NonSystemIdx(w) : k < i}) < j}

\* The window without the messages at the given positions.
SeqWithout(w, drop) ==
    LET F[i \in 0..Len(w)] ==
            IF i = 0 THEN <<>>
            ELSE IF i \in drop THEN F[i - 1] ELSE Append(F[i - 1], w[i])
    IN  F[Len(w)]

TokensAt(w, I) == SeqSum([i \in DOMAIN w |-> IF i \in I THEN w[i].token_estimate ELSE 0])

\* C8 as claimed: when add_message has triggered a compression pass and the
\* pass completed, the window is below the threshold when add_message returns.
CompletedPassRestoresBelowThreshold ==
    (last.op = "add_message" /\ last.pass = "completed")
        => ~NeedsCompression(win[last.agent])

\* C8 as amended: a pass triggered by add_message that ends without error has
\* evicted exactly the oldest max(1, k div 2) of the k non-system messages
\* (nothing when k = 0), and the window is below the threshold on return
\* exactly when the remaining messages total fewer tokens than the threshold.
CompletedPassEvictsOldestHalf ==
    [][(last'.op = "add_message" /\ last'.pass \in {"completed", "noop"}) =>
         LET a == last'.agent
             w == Append(win[a], last'.msg)
             k == Cardinality(NonSystemIdx(w))
             gone == IF k = 0 THEN {} ELSE OldestIdx(w, Max2(1, k \div 2))
         IN  /\ TokenCount(w) >= Threshold
             /\ (k >= 1) <=> (last'.pass = "completed")
             /\ Cardinality(gone) = (IF k = 0 THEN 0 ELSE Max2(1, k \div 2))
             /\ win'[a] = SeqWithout(w, gone)
             /\ (k >= 1) => TokenCount(win'[a]) < TokenCount(w)
             /\ ~NeedsCompression(win'[a])
                   <=> TokenCount(w) - TokensAt(w, gone) < Threshold]_vars

\* C8 witness: a completed pass has brought a window that holds a system
\* message and a non-system message back below the threshold.
BackBelowThreshold ==
    /\ last.op = "add_message" /\ last.pass = "completed"
    /\ ~NeedsCompression(win[last.agent])
    /\ \E i, j \in DOMAIN win[last.agent] :
          win[last.agent][i].role = "system" /\ win[last.agent][j].role # "system"

\* C9: add_message returns normally even when a generation call fails during
\* the compression pass it triggers.
AddMessageAlwaysReturns ==
    last.op = "add_message" => last.result = "returned"

\* C10: a pass in which a generation call fails evicts nothing, so the window
\* still needs compression when the pass was triggered by add_message, and the
\* very next add_message runs a pass again, over the targets of the window as
\* it then is.
FailedPassDefersCompression ==
    [][/\ (last'.op = "add_message" /\ last'.pass = "failed") =>
             /\ win'[last'.agent] = Append(win[last'.agent], last'.msg)
             /\ NeedsCompression(win'[last'.agent])
       /\ (last'.op = "compress" /\ last'.pass = "failed") => win' = win
       /\ (/\ last.op = "add_message" /\ last.pass = "failed"
           /\ last'.op = "add_message" /\ last'.agent = last.agent
           /\ cfg.autoCompress) =>
             LET a == last'.agent
                 w == Append(win[a], last'.msg)
                 k == Cardinality(NonSystemIdx(w))
             IN  /\ last'.pass \in {"completed", "failed"}
                 /\ last'.pass = "completed" =>
                       win'[a] = SeqWithout(w, OldestIdx(w, Max2(1, k \div 2)))]_vars

\* C10 witness: the add_message that follows a failed pass has run a pass that
\* completed.
PassCompletedOnRetry ==
    last.op = "add_message" /\ last.retry /\ last.pass = "completed"

\* The messages of a window at the given positions, in window order.
SeqAt(w, I) == SeqWithout(w, DOMAIN w \ I)

\* C12 as claimed: get_messages_for_compression returns the oldest ceil(k/2) of
\* the k non-system messages, in window order.
TargetsAreOldestCeilHalf ==
    [][last'.op = "targets" =>
         LET w == win[last'.agent]
             k == Cardinality(NonSystemIdx(w))
         IN  last'.value = SeqAt(w, OldestIdx(w, (k + 1) \div 2))]_vars

\* C12 as amended: get_messages_for_compression returns, in window order,
\* exactly the oldest max(1, k div 2) of the k non-system messages (none when
\* k = 0), never a system message, and leaves the window unchanged, so that a
\* call right after another returns the same messages.
TargetsAreOldestFloorHalf ==
    [][last'.op = "targets" =>
         LET w == win[last'.agent]
             k == Cardinality(NonSystemIdx(w))
             j == IF k = 0 THEN 0 ELSE Max2(1, k \div 2)
         IN  /\ last'.value = SeqAt(w, OldestIdx(w, j))
             /\ Len(last'.value) = j
             /\ \A i \in DOMAIN last'.value : last'.value[i].role # "system"
             /\ win' = win
             /\ (last.op = "targets" /\ last.agent = last'.agent)
                   => last'.value = last.value]_vars

\* C12 witness: one target out of three non-system messages that follow a
\* system message.
OneTargetOfThree ==
    /\ last.op = "targets"
    /\ Len(last.value) = 1
    /\ Cardinality(NonSystemIdx(win[last.agent])) = 3
    /\ win[last.agent][1].role = "system"

\* C13: pop_oldest_messages(n), n >= 0, removes and returns exactly the
\* min(n, k) oldest of the k non-system messages in their original order and
\* leaves every other message in the window in unchanged order.
PopRemovesOldestNonSystem ==
    [][last'.op = "pop" =>
         LET w == win[last'.agent]
             k == Cardinality(NonSystemIdx(w))
             gone == OldestIdx(w, last'.n)
         IN  /\ Cardinality(gone) = Min2(last'.n, k)
             /\ last'.value = SeqAt(w, gone)
             /\ win'[last'.agent] = SeqWithout(w, gone)]_vars

\* C13 witness: two messages were popped around a system message, which
\* remains with a newer non-system message.
PoppedAroundSystemMessage ==
    /\ last.op = "pop"
    /\ Len(last.value) = 2
    /\ Len(win[last.agent]) = 2
    /\ win[last.agent][1].role = "system"
    /\ win[last.agent][2].role # "system"

\* C14: needs_compression is true exactly when the token estimates of the
\* window's messages sum to at least floor(max_tokens * compression_threshold),
\* and reading it changes nothing.
NeedsCompressionIffAtThreshold ==
    [][last'.op = "needs" =>
         LET w == win[last'.agent]
             tokens == SeqSum([i \in DOMAIN w |-> Max2(1, w[i].len \div 4)])
         IN  /\ last'.value <=> (tokens >= (MaxTokens * ThresholdNum) \div ThresholdDen)
             /\ win' = win]_vars

\* C14 witness: needs_compression read as true with the token count exactly at
\* the threshold.
TrueExactlyAtThreshold ==
    /\ last.op = "needs"
    /\ last.value
    /\ TokenCount(win[last.agent]) = Threshold

\* C11: a compression pass in which a step fails leaves no effect behind:
\* the table, the vector store and the window (after the append of
\* add_message) are as they were before the pass, so no summary is persisted
\* by a pass whose fact extraction fails.
FailedPassLeavesNoEffect ==
    [][(last'.op \in {"add_message", "compress"} /\ last'.pass = "failed") =>
         /\ db' = db
         /\ sem' = sem
         /\ win'[last'.agent] = IF last'.op = "add_message"
                                  THEN Append(win[last'.agent], last'.msg)
                                  ELSE win[last'.agent]]_vars

\* The list recall merges: the semantic hits (score: the similarity) followed
\* by the recent records (score: importance / 10, here in hundredths).
MergedForRecall(hits, rec) ==
    [k \in DOMAIN hits |-> [content |-> hits[k].content, source |-> "semantic",
                            score |-> hits[k].similarity]]
    \o [k \in DOMAIN rec |-> [content |-> rec[k].content, source |-> "episodic",
                              score |-> rec[k].importance * 10]]

\* The place of entry i of L in the stable sort of L by score descending,
\* counted from 0.
RankIn(L, i) ==
    Cardinality({j \in DOMAIN L :
        L[j].score > L[i].score \/ (L[j].score = L[i].score /\ j < i)})

\* The entries whose content does not occur earlier in the sorted list.
FirstOfContent(L) ==
    {i \in DOMAIN L :
        \A j \in DOMAIN L : L[j].content = L[i].content => RankIn(L, j) >= RankIn(L, i)}

\* The first n of those entries, in sorted order.
RankedFirstN(L, n) ==
    [p \in 1..Min2(n, Cardinality(FirstOfContent(L))) |->
        L[CHOOSE i \in FirstOfContent(L) :
            Cardinality({j \in FirstOfContent(L) : RankIn(L, j) < RankIn(L, i)}) = p - 1]]

\* The semantic hits a recall call got.
HitsOf(l) ==
    IF l.searchOk
    THEN SemSearch({e.content : e \in {x \in sem : x.coll = l.agent}},
                   l.query, l.n, SearchMinSim)
    ELSE <<>>

\* The lists of recent records a recall call can have got.
RecentsOf(l) ==
    IF l.includeEpisodic THEN RecallRecent(db, l.agent, Min2(l.n, 10)) ELSE {<<>>}

\* C15: recall returns exactly the first n entries of the semantic hits followed
\* by the min(n, 10) most recent records, stably sorted by score descending,
\* without the entries whose content occurred earlier in the sorted list; so
\* the result has at most n entries, pairwise distinct contents, non-increasing
\* scores, and each content with the highest score it has in the merged list.
RecallIsRankedMerge ==
    last.op = "recall" =>
        \E rec \in RecentsOf(last) :
            LET L == MergedForRecall(HitsOf(last), rec)
                v == last.value
            IN  /\ v = RankedFirstN(L, last.n)
                /\ Len(v) <= last.n
                /\ \A i, j \in DOMAIN v : i < j =>
                      v[i].content # v[j].content /\ v[i].score >= v[j].score
                /\ \A i \in DOMAIN v, k \in DOMAIN L :
                      L[k].content = v[i].content => L[k].score <= v[i].score

\* C15 witness: a recall whose merged list held a semantic hit and a record of
\* equal score and different content, and a content twice, and was cut to n.
RecallMergedTiesAndRepeats ==
    /\ last.op = "recall" /\ last.searchOk /\ last.includeEpisodic
    /\ Len(last.value) = last.n
    /\ \E rec \in RecentsOf(last) :
          LET L == MergedForRecall(HitsOf(last), rec)
          IN  /\ last.value = RankedFirstN(L, last.n)
              /\ Len(L) > last.n
              /\ \E i, j \in DOMAIN L :
                    /\ L[i].source = "semantic" /\ L[j].source = "episodic"
                    /\ L[i].score = L[j].score /\ L[i].content # L[j].content
              /\ \E i, j \in DOMAIN L : i # j /\ L[i].content = L[j].content

\* C16: when semantic.search raises, recall returns normally, and what it
\* returns is the ranking built from the recent records alone.
RecallSurvivesSearchFailure ==
    (last.op = "recall" /\ ~last.searchOk) =>
        /\ last.result = "returned"
        /\ \A i \in DOMAIN last.value : last.value[i].source = "episodic"
        /\ \E rec \in RecentsOf(last) :
              last.value = RankedFirstN(MergedForRecall(<<>>, rec), last.n)

\* C16 witness: the search raised while the collection held entries, and the
\* recall returned records.
RecallReturnedRecordsWithoutSearch ==
    /\ last.op = "recall" /\ ~last.searchOk /\ last.result = "returned"
    /\ \E x \in sem : x.coll = last.agent
    /\ last.value # <<>>

\* C17: get_context returns either the empty string or the header followed by
\* at least one bullet line, never the header alone; it returns the empty
\* string exactly when no bullet was included: no memory was retrieved or the
\* first bullet exceeds the budget.
ContextNeverHeaderAlone ==
    last.op = "get_context" =>
        LET v == last.value
            ms == last.memories
        IN  /\ \/ v = <<>>
               \/ /\ Len(v) >= 2
                  /\ v[1] = Header
                  /\ \A i \in 2..Len(v) : v[i] # Header /\ v[i] = ms[i - 1]
            /\ v = <<>> <=>
                  \/ ms = <<>>
                  \/ (2 + ContentLen(ms[1])) \div 4 > last.maxTokens

\* C17 witness: memories were retrieved, the first bullet exceeded the budget
\* and the empty string was returned.
EmptyWhenFirstBulletTooLarge ==
    /\ last.op = "get_context"
    /\ last.memories # <<>>
    /\ last.value = <<>>

\* C18: of two successive get_context calls with the same query and n on
\* unchanged memories, the one with the larger max_tokens returns a text at
\* least as long.
ContextLengthMonotoneInBudget ==
    [][(/\ last.op = "get_context" /\ last'.op = "get_context"
        /\ last.agent = last'.agent /\ last.query = last'.query /\ last.n = last'.n
        /\ last.maxTokens <= last'.maxTokens)
          => TextLen(last.value) <= TextLen(last'.value)]_vars

\* C18 witness: a larger budget has let in more of three retrieved memories
\* than the call before, and still not all of them.
LargerBudgetLongerText ==
    /\ last.op = "get_context" /\ last.grew
    /\ Len(last.memories) = 3
    /\ Len(last.value) \in {2, 3}

\* C19: is_duplicate(x, [x]) is true and is_duplicate(x, []) is false, whatever
\* the threshold and whether or not the embedder works.
ExactMatchDecidesWithoutEmbedder ==
    last.op = "is_duplicate" =>
        /\ last.existing = <<last.candidate>> => last.value
        /\ last.existing = <<>> => ~last.value

\* C19 witness: is_duplicate(x, [x]) returned true with no embedder and a
\* threshold no similarity reaches.
ExactMatchWithoutEmbedder ==
    /\ last.op = "is_duplicate"
    /\ last.existing = <<last.candidate>>
    /\ last.embeds = 0
    /\ last.threshold > 100
    /\ last.value

\* C20: is_duplicate returns normally, and when an embed call raised during
\* the call the result is the exact-match result: true iff the candidate is an
\* element of existing.
EmbedFailureFallsBackToExactMatch ==
    last.op = "is_duplicate" =>
        /\ last.result = "returned"
        /\ last.failed =>
              (last.value <=> \E k \in DOMAIN last.existing :
                                 last.existing[k] = last.candidate)

\* C20 witness: the embedding of the second existing item raised, after the
\* first was found not similar enough, though the second would have been.
FailedBeforeSimilarItem ==
    /\ last.op = "is_duplicate"
    /\ last.failed
    /\ last.embeds = 2
    /\ Len(last.existing) = 2
    /\ Sim(last.candidate, last.existing[2]) >= last.threshold
    /\ ~last.value

\* How many of the rows hold the content c at the importance i.
PairCount(rows, c, i) == Cardinality({r \in rows : r.content = c /\ r.importance = i})

\* C21: importing what export_json returned into a namespace without records
\* leaves it with the same multiset of (content, importance) pairs as the
\* exported namespace held.
RoundTripKeepsContentAndImportance ==
    [][(/\ last.op = "export_json" /\ last'.op = "import_json"
        /\ last'.data = last.value
        /\ Ns(db, last'.agent) = {})
          => \A r \in Ns(db, last.agent) \cup Ns(db', last'.agent) :
                PairCount(Ns(db', last'.agent), r.content, r.importance)
                    = PairCount(Ns(db, last.agent), r.content, r.importance)]_vars

\* C21 witness: a round trip of a full namespace holding two importances.
RoundTripOfFullNamespace ==
    /\ last.op = "import_json" /\ last.roundTrip
    /\ Count(db, last.agent) = MaxEntries
    /\ \E r1, r2 \in Ns(db, last.agent) : r1.importance # r2.importance

\* The rows import_json inserted: one per record, in the order of the records.
ImportedRows(a, recs, first) ==
    {[id |-> first + k - 1, agent |-> a, content |-> recs[k].content,
      meta |-> recs[k].metadata, importance |-> recs[k].importance] : k \in DOMAIN recs}

\* A row without its created_at.
Undated(r) ==
    [id |-> r.id, agent |-> r.agent, content |-> r.content, meta |-> r.meta,
     importance |-> r.importance]

\* C22 as claimed: import_json with merge false (the default) leaves exactly the
\* imported records in the namespace, with merge true it keeps every record
\* that was there and adds the imported ones, and it returns their number.
ImportLeavesExactlyTheRecords ==
    [][last'.op = "import_json" =>
         LET a == last'.agent
             recs == last'.data
             post == Ns(db', a)
             kept == IF last'.merge THEN Ns(db, a) ELSE {}
         IN  /\ last'.returned = Len(recs)
             /\ last'.mergeArg = "omitted" => ~last'.merge
             /\ kept \subseteq post
             /\ {Undated(r) : r \in post \ kept} = ImportedRows(a, recs, nextId)
             /\ Cardinality(post) = Cardinality(kept) + Len(recs)]_vars

\* C22 as amended: the same, as long as the records kept and imported together
\* number at most max_entries; beyond that the eviction of each store applies
\* and the namespace ends with max_entries records, all of them among the
\* records kept and imported.
ImportLeavesTheRecordsWithinCapacity ==
    [][last'.op = "import_json" =>
         LET a == last'.agent
             recs == last'.data
             post == Ns(db', a)
             kept == IF last'.merge THEN Ns(db, a) ELSE {}
         IN  /\ last'.returned = Len(recs)
             /\ last'.mergeArg = "omitted" => ~last'.merge
             /\ nextId' = nextId + Len(recs)
             /\ \A b \in Agents : b # a => Ns(db', b) = Ns(db, b)
             /\ {Undated(r) : r \in post \ kept} \subseteq ImportedRows(a, recs, nextId)
             /\ Cardinality(post) = Min2(Cardinality(kept) + Len(recs), MaxEntries)
             /\ Cardinality(kept) + Len(recs) <= MaxEntries =>
                   /\ kept \subseteq post
                   /\ {Undated(r) : r \in post \ kept} = ImportedRows(a, recs, nextId)]_vars

\* C22 witness: an import without merge has replaced the records of a namespace.
ImportReplacedNamespace ==
    /\ last.op = "import_json" /\ ~last.merge /\ last.replaced
    /\ last.returned = MaxEntries
    /\ {Undated(r) : r \in Ns(db, last.agent)}
          = ImportedRows(last.agent, last.data, nextId - last.returned)

\* C23: of the calls made through the coroutine methods at most one is being
\* executed at any time, and they begin to execute in the order they were
\* submitted.
AsyncCallsRunOneAtATimeInOrder ==
    /\ Cardinality(executor.running) <= 1
    /\ Len(executor.started) <= Len(executor.submitted)
    /\ \A i \in DOMAIN executor.started : executor.started[i] = executor.submitted[i]
    /\ \A c \in executor.running : c = executor.started[Len(executor.started)]

\* C23 witness: a call is being executed after another has finished, while
\* two more wait in the queue.
CallRunsWhileOthersWait ==
    /\ Cardinality(executor.running) = 1
    /\ Len(executor.started) >= 2
    /\ Len(executor.queue) >= 2

\* C24: a crash loses nothing that a returned store or clear left in the
\* table: recall_recent on the instance opened after the crash returns what it
\* returned before it, and after a store the record that store left in the
\* table is among the records returned.
CrashKeepsEveryReturnedStore ==
    [][last'.op = "crash" =>
         /\ \A a \in Agents :
               RecallRecent(db', a, MaxEntries) = RecallRecent(db, a, MaxEntries)
         /\ (last.op = "store" /\ \E r \in db : r.id = last.id) =>
               \A res \in RecallRecent(db', last.agent, MaxEntries) :
                  \E i \in DOMAIN res : res[i].id = last.id]_vars

\* C24 witness: the process crashed right after a store into a full namespace
\* returned, and the new instance holds the record of that store.
CrashedRightAfterStore ==
    /\ last.op = "crash"
    /\ \E r \in db : r.id = last.storedId /\ r.agent = last.agent
    /\ Count(db, last.agent) = MaxEntries

\* C25: recall_recent(n) returns min(n, count) distinct records of the
\* namespace, in non-increasing created_at order, and no record left out was
\* created later than one returned.
RecallRecentIsNewestFirst ==
    last.op = "recall_recent" =>
        LET res == last.value
            rows == Ns(db, last.agent)
        IN  /\ Len(res) = Min2(last.n, Cardinality(rows))
            /\ \A i \in DOMAIN res : res[i] \in rows
            /\ \A i, j \in DOMAIN res : i # j => res[i] # res[j]
            /\ \A i, j \in DOMAIN res : i < j => res[i].created_at >= res[j].created_at
            /\ \A r \in rows \ Range(res) :
                  \A i \in DOMAIN res : res[i].created_at >= r.created_at

\* C25 witness: recall_recent(1) on a namespace of two records created at
\* different times, beside a record of another namespace.
RecalledTheNewerOfTwo ==
    /\ last.op = "recall_recent"
    /\ last.n = 1
    /\ Len(last.value) = 1
    /\ \E r \in Ns(db, last.agent) : r.created_at < last.value[1].created_at
    /\ Ns(db, "B") # {}

\* C26: right after clear() the namespace's index holds no entries: count is
\* 0 and a search for any query returns nothing.
ClearLeavesIndexEmpty ==
    last.op = "sem_clear" =>
        /\ Coll(sem, last.agent) = {}
        /\ SemCount(sem, client, last.agent) = 0
        /\ \A q \in Contents :
              SemSearch(Coll(sem, last.agent), q, DefaultN, SearchMinSim) = <<>>

\* The window a pass ran on: the window of the agent, after the append when
\* the pass was triggered by add_message.
PassWindow(l, w) ==
    IF l.op = "add_message" THEN Append(w[l.agent], l.msg) ELSE w[l.agent]

\* C27: a pass that completes has summarized the targets, then stored the
\* summary at importance 7 tagged compression_summary, then (with
\* auto_extract_facts) remembered each extracted fact at importance 8, and
\* only then evicted; the messages evicted are exactly the targets.
CompletedPassRunsStepsInOrder ==
    [][(last'.op \in {"add_message", "compress"} /\ last'.pass = "completed") =>
         LET a == last'.agent
             w == PassWindow(last', win)
             t == last'.trace
             new == hist' \ hist
         IN  /\ t.targets # <<>>
             /\ t.targets = SeqAt(w, OldestIdx(w, Len(t.targets)))
             /\ t.steps = <<"summarize">>
                            \o (IF t.summary # "" THEN <<"store_summary">> ELSE <<>>)
                            \o (IF cfg.extractFacts
                                THEN <<"extract_facts">>
                                       \o [i \in DOMAIN t.facts |-> "remember"]
                                ELSE <<>>)
                            \o <<"evict">>
             /\ t.summary # "" =>
                   \E r \in new : /\ r.id = nextId
                                  /\ r.agent = a
                                  /\ r.content = t.summary
                                  /\ r.importance = SummaryImportance
                                  /\ r.meta = SummaryMeta
             /\ \A r \in new : (r.id > nextId \/ t.summary = "") =>
                   /\ cfg.extractFacts
                   /\ r.content \in Range(t.facts)
                   /\ r.importance = FactImportance
                   /\ r.meta = NoMeta
             /\ t.evicted = t.targets
             /\ win'[a] = SeqWithout(w, OldestIdx(w, Len(t.targets)))]_vars

\* C27 witness: a pass stored a summary, remembered a fact and evicted its
\* targets, leaving a message in the window.
PassStoredSummaryThenFact ==
    /\ last.op \in {"add_message", "compress"}
    /\ last.pass = "completed"
    /\ last.trace.steps = <<"summarize", "store_summary", "extract_facts", "remember", "evict">>
    /\ \E r1, r2 \in db : /\ r1.importance = SummaryImportance
                           /\ r2.importance = FactImportance
                           /\ r1.id < r2.id
    /\ win[last.agent] # <<>>

\* C28: when summarize returns empty text the pass writes no summary record,
\* and it still extracts the facts (when enabled), remembers them and evicts
\* the targets.
EmptySummaryKeepsExtractingAndEvicting ==
    [][(/\ last'.op \in {"add_message", "compress"}
        /\ last'.pass \in {"completed", "failed"}
        /\ last'.trace.summary = "") =>
         LET a == last'.agent
             w == PassWindow(last', win)
             t == last'.trace
         IN  /\ "store_summary" \notin Range(t.steps)
             /\ \A r \in hist' \ hist :
                   r.meta # SummaryMeta /\ r.importance # SummaryImportance
             /\ last'.pass = "completed" =>
                   /\ cfg.extractFacts =>
                         /\ "extract_facts" \in Range(t.steps)
                         /\ \A i \in DOMAIN t.facts :
                               \E r \in Ns(hist', a) : r.content = t.facts[i]
                   /\ t.evicted = t.targets
                   /\ t.targets # <<>>
                   /\ win'[a] = SeqWithout(w, OldestIdx(w, Len(t.targets)))]_vars

\* C28 witness: a pass whose summary was empty remembered a fact and evicted.
EmptySummaryPassRememberedFact ==
    /\ last.op \in {"add_message", "compress"}
    /\ last.pass = "completed"
    /\ last.trace.summary = ""
    /\ last.trace.steps = <<"summarize", "extract_facts", "remember", "evict">>
    /\ last.trace.evicted # <<>>
    /\ \E r \in db : r.importance = FactImportance /\ r.id = nextId - 1

\* C29: the compression trigger on a window without non-system messages is a
\* no-op: no generation call, no write to the table or the vector store, no
\* eviction, no exception.
TriggerOnEmptyWindowIsNoOp ==
    [][(/\ last'.op = "compress" \/ (last'.op = "add_message" /\ last'.pass # "none")
        /\ NonSystemIdx(PassWindow(last', win)) = {}) =>
         /\ last'.pass = "noop"
         /\ last'.result = "returned"
         /\ last'.trace.steps = <<>>
         /\ db' = db
         /\ hist' = hist
         /\ sem' = sem
         /\ win'[last'.agent] = PassWindow(last', win)]_vars

\* C29 witness: add_message triggered a pass on a window of system messages
\* alone.
TriggeredOnSystemMessagesAlone ==
    /\ last.op = "add_message"
    /\ last.pass = "noop"
    /\ Len(win[last.agent]) >= 2
    /\ \A i \in DOMAIN win[last.agent] : win[last.agent][i].role = "system"

\* C30 as claimed: every message of the window has token_estimate
\* max(1, ceil(len(content) / 4)).
TokenEstimateIsCeilOfQuarter ==
    \A a \in Agents : \A i \in DOMAIN win[a] :
        LET msg == win[a][i]
            ceil == CHOOSE q \in 0..msg.len : 4 * q >= msg.len /\ 4 * (q - 1) < msg.len
        IN  msg.token_estimate = Max2(1, ceil)

\* C30: every message of the window has token_estimate
\* max(1, floor(len(content) / 4)), an integer >= 1.
TokenEstimateIsFloorOfQuarter ==
    \A a \in Agents : \A i \in DOMAIN win[a] :
        LET msg == win[a][i]
            floor == CHOOSE q \in 0..msg.len : 4 * q <= msg.len /\ msg.len < 4 * (q + 1)
        IN  /\ msg.token_estimate \in Nat
            /\ msg.token_estimate >= 1
            /\ msg.token_estimate = Max2(1, floor)

\* C30 witness: a content of five characters was appended and estimated at
\* one token.
FiveCharactersOneToken ==
    /\ last.op = "tok_add"
    /\ last.len = 5
    /\ win[last.agent][Len(win[last.agent])].len = 5
    /\ win[last.agent][Len(win[last.agent])].token_estimate = 1

\* floor(len(bullet_line) / 4) of the bullet of a content.
BulletEstimate(c) == (2 + ContentLen(c)) \div 4

\* The bullets of a returned text: its lines after the header.
BulletsOf(v) == IF v = <<>> THEN <<>> ELSE Tail(v)

\* C31: the bullets of the text get_context returns are a prefix of the
\* retrieved list, each one whole; their estimates floor(len(line) / 4) sum to
\* at most max_tokens; and the first memory left out is one whose bullet would
\* have made the budget negative, whatever shorter ones follow it.
ContextIsGreedyPrefix ==
    last.op = "get_context" =>
        LET b == BulletsOf(last.value)
            ms == last.memories
            used == SeqSum([i \in DOMAIN b |-> BulletEstimate(b[i])])
        IN  /\ Len(b) <= Len(ms)
            /\ \A i \in DOMAIN b : b[i] = ms[i]
            /\ used <= last.maxTokens
            /\ Len(b) < Len(ms) => used + BulletEstimate(ms[Len(b) + 1]) > last.maxTokens

\* C31 witness: a bullet was included, the next one did not fit, and a later,
\* shorter one that would have fitted was left out.
StoppedBeforeShorterBullet ==
    /\ last.op = "get_context"
    /\ Len(last.value) = 2
    /\ Len(last.memories) = 3
    /\ BulletEstimate(last.memories[1]) + BulletEstimate(last.memories[3]) <= last.maxTokens

\* Whether x duplicates an item of the pool: an exact match, or a similarity
\* at or above the threshold when the embedder works.
DuplicatesOneOf(x, pool, embedder, threshold) ==
    \E k \in DOMAIN pool :
        \/ pool[k] = x
        \/ embedder /\ Sim(x, pool[k]) >= threshold

\* C32: deduplicate returns the candidates at some positions I, in input
\* order, such that a candidate is in I exactly when it duplicates neither an
\* item of existing nor a candidate accepted before it; the caller's existing
\* list is as it was.
DeduplicateKeepsFirstOfEachKind ==
    last.op = "deduplicate" =>
        /\ \E I \in SUBSET DOMAIN last.candidates :
              /\ last.value = SeqAt(last.candidates, I)
              /\ \A i \in DOMAIN last.candidates :
                    i \in I <=>
                      ~DuplicatesOneOf(last.candidates[i],
                                       last.existing
                                         \o SeqAt(last.candidates, {j \in I : j < i}),
                                       last.embedder, last.threshold)
        /\ last.existingAfter = last.existing

\* C32 witness: with a non-empty existing list none of the candidates
\* duplicates, a candidate was dropped for repeating an accepted one.
DroppedRepeatOfAcceptedCandidate ==
    /\ last.op = "deduplicate"
    /\ last.existing # <<>>
    /\ \A i \in DOMAIN last.candidates :
          ~DuplicatesOneOf(last.candidates[i], last.existing, last.embedder,
                           last.threshold)
    /\ last.value # <<>>
    /\ Len(last.value) < Len(last.candidates)

\* C33: among records of a namespace with equal created_at, recall_recent
\* lists the one inserted later first, and among records with equal importance
\* and created_at eviction removes the one inserted earlier.
TiesFollowInsertionOrder ==
    [][/\ last'.op = "recall_recent" =>
             \A i, j \in DOMAIN last'.value :
                (i < j /\ last'.value[i].created_at = last'.value[j].created_at)
                   => last'.value[i].id > last'.value[j].id
       /\ last'.op = "store" =>
             \A gone \in (db \cup (hist' \ hist)) \ db', kept \in Ns(db', last'.agent) :
                (/\ gone.agent = kept.agent
                 /\ gone.importance = kept.importance
                 /\ gone.created_at = kept.created_at) => gone.id < kept.id]_vars

\* The contents of a list of rows, in order.
ContentsOf(rows) == [k \in DOMAIN rows |-> rows[k].content]

\* Whether no two rows of the set share created_at.
DistinctStamps(rows) == \A r1, r2 \in rows : r1 # r2 => r1.created_at # r2.created_at

\* C34: after import_json(export_json()) into a namespace without records,
\* recall_recent lists the contents in the order it lists them on the source
\* namespace, unless timestamps coincide on either side.
RoundTripKeepsRecencyOrder ==
    [][(/\ last.op = "export_json" /\ last'.op = "import_json"
        /\ last'.data = last.value
        /\ Ns(db, last'.agent) = {}
        /\ DistinctStamps(Ns(db, last.agent))
        /\ DistinctStamps(Ns(db', last'.agent)))
          => \A src \in RecallRecent(db, last.agent, ExportLimit),
                dst \in RecallRecent(db', last'.agent, ExportLimit) :
                ContentsOf(dst) = ContentsOf(src)]_vars

\* C35: import_json on a snapshot holding a record without content raises to
\* the caller and leaves the table as it was before the call, whether merge is
\* false or true.
MalformedImportLeavesLogUnchanged ==
    [][(last'.op = "import_snapshot" /\ \E k \in DOMAIN last'.data : Malformed(last'.data[k]))
          => /\ last'.result = "raised"
             /\ db' = db]_vars

\* C36: after import_json the content of every imported record is held by the
\* namespace's collection in the vector store.
ImportRederivesSemanticTier ==
    last.op = "import_json" =>
        \A k \in DOMAIN last.data : last.data[k].content \in Coll(sem, last.agent)

\* The writers whose transaction is open.
InTransaction(ws) == {w \in Writers : ws.pc[w] # "idle"}

\* C37: of two instances storing into one file and namespace at most one has
\* its transaction open at a time; each committed store changes the file as
\* one store run alone on the file as it was would (its row inserted, then
\* the lowest (importance, created_at) rows beyond max_entries removed), so
\* the count stays within max_entries and no record is lost otherwise.
ConcurrentStoresAreSerialised ==
    [][/\ Cardinality(InTransaction(writers')) <= 1
       /\ Count(db', "A") <= MaxEntries
       /\ last'.op = "tx_commit" =>
             LET ins == db \cup last'.row
                 gone == ins \ db'
             IN  /\ db' \subseteq ins
                 /\ Count(db', "A") = Min2(Count(ins, "A"), MaxEntries)
                 /\ \A v \in gone, r \in Ns(db', "A") : v.agent = "A" /\ EvictLE(v, r)]_vars

\* C37 witness: both instances have stored, the other instance was turned
\* away while the lock was held, and the last store evicted a record the
\* other instance had written.
BothWritersStoredWithEviction ==
    /\ last.op = "tx_commit"
    /\ \A w \in Writers : writers.commits[w] >= 1
    /\ Count(db, "A") = MaxEntries
    /\ last.evicted # {}
    /\ last.evicted \cap last.row = {}

\* C38: a store at importance i into a namespace holding max_entries records,
\* all created before the new one, keeps the new record exactly when some
\* record already there has importance <= i; otherwise the new record is the
\* one evicted and the table is as before the call.
NewRecordSurvivesIffNotLowest ==
    [][(/\ last'.op = "store"
        /\ Count(db, last'.agent) = MaxEntries
        /\ \A r \in Ns(db, last'.agent), new \in hist' \ hist :
               r.created_at < new.created_at)
          => \A new \in hist' \ hist :
                /\ new.id = nextId
                /\ new \in db' <=>
                      \E r \in Ns(db, last'.agent) : r.importance <= new.importance
                /\ new \notin db' => db' = db]_vars

\* C38 witness: a store into a full namespace whose records all have a higher
\* importance has returned, and its record is not in the table.
NewRecordWasTheOneEvicted ==
    /\ last.op = "store"
    /\ Count(db, last.agent) = MaxEntries
    /\ \A r \in db : r.id # last.id
    /\ \E h \in hist : /\ h.id = last.id
                        /\ \A r \in Ns(db, last.agent) :
                              r.importance > h.importance /\ r.created_at < h.created_at

\* The message add_message appended is no longer in the window w2 it left:
\* eviction takes non-system messages from the oldest on, so the newest of
\* the window w goes only when all of them go.
AppendedWasEvicted(msg, w, w2) ==
    /\ msg.role # "system"
    /\ Len(w) - Len(w2) >= Len(NonSystem(w))

\* The newest non-system message of w is still in w2.
NewestNonSystemKept(w, w2) ==
    LET before == NonSystem(w)
        after == NonSystem(w2)
    IN  /\ after # <<>>
        /\ Len(after) <= Len(before)
        /\ after = SubSeq(before, Len(before) - Len(after) + 1, Len(before))

\* C39 as claimed: every pass add_message triggers evicts the message just
\* appended exactly when it is the only non-system message of the window, and
\* with two or more non-system messages the newest is still in the window.
TriggeredPassEvictsAppendedIffAlone ==
    [][(last'.op = "add_message" /\ last'.pass # "none") =>
         LET a == last'.agent
             w == PassWindow(last', win)
         IN  /\ AppendedWasEvicted(last'.msg, w, win'[a]) <=>
                   (last'.msg.role # "system" /\ Len(NonSystem(w)) = 1)
             /\ Len(NonSystem(w)) >= 2 => NewestNonSystemKept(w, win'[a])]_vars

\* C39: a pass add_message triggers that completes evicts the message just
\* appended exactly when it is the only non-system message of the window; a
\* pass that fails evicts nothing; and with two or more non-system messages
\* the newest is still in the window however the pass ends.
CompletedPassEvictsAppendedIffAlone ==
    [][(last'.op = "add_message" /\ last'.pass # "none") =>
         LET a == last'.agent
             w == PassWindow(last', win)
         IN  /\ last'.pass = "completed" =>
                   (AppendedWasEvicted(last'.msg, w, win'[a]) <=>
                      (last'.msg.role # "system" /\ Len(NonSystem(w)) = 1))
             /\ last'.pass # "completed" => win'[a] = w
             /\ Len(NonSystem(w)) >= 2 => NewestNonSystemKept(w, win'[a])]_vars

\* C39 witness: add_message has returned after a completed pass that evicted
\* the message it appended, leaving system messages alone in the window.
AppendedMessageWasEvicted ==
    /\ last.op = "add_message"
    /\ last.pass = "completed"
    /\ last.msg.role # "system"
    /\ win[last.agent] # <<>>
    /\ NonSystem(win[last.agent]) = <<>>

\* The system messages of a window, in window order.
SystemOnly(w) == SelectSeq(w, LAMBDA msg : msg.role = "system")

\* C40: a compress() pass on a window with k >= 1 non-system messages evicts
\* exactly the oldest max(1, k \div 2) of them and no system message; a pass on
\* a window without non-system messages changes nothing; no operation but
\* clear() takes a system message out of the window; and when compress() is
\* called again and again, with generation calls that succeed, the window ends
\* with no non-system message and stays so.
RepeatedCompressDrainsWindow ==
    /\ [][LET a == "A"
              before == NonSystem(win[a])
              k == Len(before)
              n == IF k \div 2 >= 1 THEN k \div 2 ELSE 1
          IN  /\ (last'.op = "compress" /\ k >= 1) =>
                    /\ last'.pass = "completed"
                    /\ NonSystem(win'[a]) = SubSeq(before, n + 1, k)
                    /\ Len(win'[a]) = Len(win[a]) - n
                    /\ SystemOnly(win'[a]) = SystemOnly(win[a])
              /\ (last'.op = "compress" /\ k = 0) =>
                    /\ last'.pass = "noop"
                    /\ win' = win /\ db' = db /\ hist' = hist /\ sem' = sem
              /\ last'.op # "wm_clear" =>
                    /\ Len(SystemOnly(win'[a])) >= Len(SystemOnly(win[a]))
                    /\ SubSeq(SystemOnly(win'[a]), 1, Len(SystemOnly(win[a])))
                         = SystemOnly(win[a])]_vars
    /\ <>[](NonSystem(win["A"]) = <<>>)

\* C40 witness: compress() calls have drained a window in two passes or more
\* (two summaries were stored), and a system message is still in the window.
DrainedByRepeatedPasses ==
    /\ last.op = "compress"
    /\ last.pass = "completed"
    /\ NonSystem(win["A"]) = <<>>
    /\ SystemOnly(win["A"]) # <<>>
    /\ Cardinality({h \in hist : h.meta = SummaryMeta}) >= 2

====
